---- MODULE Spec2Model ----
(***************************************************************************)
(* The stream ingestion core of the operator dashboard: the class          *)
(* WebSocketManager of frontend/src/services/wsManager.ts with its         *)
(* envelopeSchema.  One manager instance, the WebSocket objects it has     *)
(* created, and the callbacks (subscriber handlers, gap observer) its      *)
(* callers registered.  The runtime is single threaded: every method and   *)
(* every onmessage callback runs to completion, so each is one action.     *)
(***************************************************************************)
EXTENDS Integers, Sequences, FiniteSets, TLC

\* ---- bounds of the model ------------------------------------------------
MaxSeq == 2
MaxSubs == 3
MaxSockets == 2
\* The validated messages whose delivery is logged.
MaxLog == 2
\* The equity watermarks the callers set: 0..MaxWatermark.
MaxWatermark == 2
\* The capacity of the alert list, the order history and the fill tape
\* (slice(0, 5000) in the code) and of the breach list (slice(0, 500)),
\* scaled down.
HistoryCap == 2
BreachCap == 1
\* The times bootstrapStreams is run.
MaxRuns == 2
\* The kill-switch requests the backend is sent.
MaxRequests == 2
\* Date.now() when the session store is created.
SessionStartTs == 1

\* ---- fixed sets ---------------------------------------------------------
\* z.enum(['market', 'portfolio', 'system'])
Streams == {"market", "portfolio", "system"}
\* The channels the callers connect and subscribe to: two of the three, the
\* manager using a channel name only as a Map key.
Channels == {"market", "system"}
\* The channel whose connection the lifecycle scenario replaces and closes.
LifeChannels == {"market"}
\* Identities of the subscriber functions (the k-th distinct function that is
\* subscribed is named k) and of the gap observers.
HandlerIds == 1..MaxSubs
Observers == {"o1", "o2"}
NoObserver == "undefined"
\* The value of lastMsg after a step that was no inbound message.
NoMessage == [outcome |-> "none"]
\* "No sequence recorded" in the history of a message.
NoSeq == -1
\* "No socket" in the history of a message; the sockets are numbered from 1.
NoSocket == 0

\* ---- JavaScript values --------------------------------------------------
\* A number is kept in halves, so that 1.5 is a value and "is an integer"
\* is something the validator computes.
Str(s) == [t |-> "string", s |-> s]
Num(h) == [t |-> "number", half |-> h]
Int2Num(n) == Num(2 * n)
Null == [t |-> "null"]
Undefined == [t |-> "undefined"]
Obj(f) == [t |-> "object", f |-> f]

Without(o, key) == Obj([k \in DOMAIN o.f \ {key} |-> o.f[k]])
With(o, key, val) ==
  Obj([k \in DOMAIN o.f \cup {key} |-> IF k = key THEN val ELSE o.f[k]])

\* { kind, stream, sequence, payload: {} } as the sender builds it.
WireEnvelope(kind, stream, n) ==
  Obj([kind |-> Str(kind), stream |-> Str(stream), sequence |-> Int2Num(n),
       payload |-> Obj(<<>>)])

\* A wire string: its text is either well-formed JSON encoding a value or not
\* JSON at all.
JsonText(v) == [t |-> "string", wire |-> [wf |-> TRUE, json |-> v]]
MalformedText == [t |-> "string", wire |-> [wf |-> FALSE]]

\* ---- the inputs of handleMessage ---------------------------------------
\* What the server of channel c sends: envelopes naming c with every sequence
\* number, and one envelope naming a channel other than its own.
ValidValues(c) ==
  {WireEnvelope("tick", c, n) : n \in 0..MaxSeq}
    \cup {WireEnvelope("tick", "portfolio", MaxSeq)}

BaseEnvelope == WireEnvelope("tick", "market", 1)

InvalidValues ==
  { Without(BaseEnvelope, "kind"),
    With(BaseEnvelope, "kind", Num(14)),
    Without(BaseEnvelope, "stream"),
    With(BaseEnvelope, "stream", Str("orders")),
    With(BaseEnvelope, "stream", Num(0)),
    Without(BaseEnvelope, "sequence"),
    With(BaseEnvelope, "sequence", Num(3)),
    With(BaseEnvelope, "sequence", Num(-2)),
    With(BaseEnvelope, "sequence", Str("1")),
    Null,
    Num(10) }

\* event.data: a string for a text frame; a test may hand over a value.
\* The messages every scenario delivers on the connection of channel c: the
\* valid envelopes, an envelope without its stream field, text that is not
\* JSON, and an envelope handed over as a value.
CoreInputs ==
  [c \in Channels |->
     {JsonText(v) : v \in ValidValues(c)}
       \cup {JsonText(Without(BaseEnvelope, "stream")), MalformedText,
             WireEnvelope("tick", c, 1)}]

\* Every kind of raw message.
RawInputs ==
  [c \in Channels |->
     CoreInputs[c]
       \cup {JsonText(v) : v \in InvalidValues}
       \cup {JsonText(Without(BaseEnvelope, "payload"))}
       \cup {Without(BaseEnvelope, "stream"), Without(BaseEnvelope, "payload"),
             Null}]

VARIABLES
  sockets,     \* Map<string, WebSocket>: stream -> index into ws
  handlers,    \* Map<string, Handler[]>
  lastSeq,     \* Map<string, number>
  gapHandler,  \* the registered gap observer, or NoObserver
  ws,          \* the WebSocket objects created so far: [stream, readyState]
  subs,        \* the disposers returned by subscribe: [stream, handler]
  calls,       \* handler invocations made by the last operation
  gaps,        \* gap observer invocations made by the last operation
  lastMsg,     \* history: the last step, when it was an inbound message
  accepted,    \* history: per stream, the sequence of the latest validated message
  live,        \* history: live[i] iff the function of the i-th subscribe call has
               \* not had a disposer for its channel invoked since that call
  invoked,     \* history, kept by SpecDisp: the disposers that have been invoked
  stale,       \* history, kept by SpecLife: the streams whose latest validated
               \* message came before the last closeAll
  cleared,     \* history, kept by SpecLife: the number of subscribe calls made
               \* before the last closeAll
  via,         \* history, kept by SpecLife: per stream, the socket that
               \* delivered the latest validated message
  registered,  \* history, kept by SpecObs: the observer of the latest
               \* onGapDetected call
  arrived,     \* history, kept by SpecOrder: the validated envelopes of the
               \* channel, in the order the transport delivered them
  delivered,   \* history, kept by SpecOrder: per handler, the envelopes it was
               \* invoked with, each with its position in arrived
  since,       \* history, kept by SpecOrder: per handler, the length of
               \* arrived at its latest subscribe call
  decoded,     \* the latest call of a stream decoder by a subscriber: the
               \* decoder, the envelope, how it ended and the state before
  session,     \* useSessionStore: the six data fields
  lastSet,     \* history: the latest setter call on the session store, its
               \* argument and the store before it
  alerts,      \* useAlertStore: [alerts]
  orders,      \* useOrderStore: [activeOrders, history, fills]
  risk,        \* useRiskStore: [metrics, limits, breaches]
  early,       \* history, kept by SpecOrder: the subscribe calls made before
               \* any connect for their channel
  domain,      \* useMarketStore and usePositionStore: [prices, positions]
  panel,       \* RiskSentinelPanel: isPermitted as useOrderActions computed
               \* it in the latest render, the requests sent to the backend,
               \* and (history) the latest call of activateKillSwitch
  events       \* history, kept by SpecSteps: what handleMessage did for the
               \* latest message, one event per effect, in the order of the
               \* effects

vars == <<sockets, handlers, lastSeq, gapHandler, ws, subs, calls, gaps,
          lastMsg, accepted, live, invoked, stale, cleared, via,
          registered, arrived, delivered, since, decoded, session,
          lastSet, alerts, orders, risk, domain, early, panel, events>>

\* ---- Map ---------------------------------------------------------------
EmptyMap == <<>>
MapHas(m, k) == k \in DOMAIN m
MapSet(m, k, v) == [x \in DOMAIN m \cup {k} |-> IF x = k THEN v ELSE m[x]]

\* ---- pure parts of wsManager.ts ----------------------------------------
\* JSON.parse: a SyntaxError for text that is not JSON, else the value.
JSONparse(raw) ==
  IF raw.wire.wf THEN [threw |-> FALSE, value |-> raw.wire.json]
  ELSE [threw |-> TRUE]

\* const parsed = typeof raw === 'string' ? JSON.parse(raw) : raw
Parsed(raw) ==
  IF raw.t = "string" THEN JSONparse(raw) ELSE [threw |-> FALSE, value |-> raw]

\* Mutant: the sequence is only required to be an integer.
envelopeSchema_AnyInteger(value) ==
  /\ value.t = "object"
  /\ "kind" \in DOMAIN value.f
  /\ value.f["kind"].t = "string"
  /\ "stream" \in DOMAIN value.f
  /\ value.f["stream"].t = "string"
  /\ value.f["stream"].s \in Streams
  /\ "sequence" \in DOMAIN value.f
  /\ value.f["sequence"].t = "number"
  /\ value.f["sequence"].half % 2 = 0

\* Mutant: any string is taken as the stream.
envelopeSchema_AnyStream(value) ==
  /\ value.t = "object"
  /\ "kind" \in DOMAIN value.f
  /\ value.f["kind"].t = "string"
  /\ "stream" \in DOMAIN value.f
  /\ value.f["stream"].t = "string"
  /\ "sequence" \in DOMAIN value.f
  /\ value.f["sequence"].t = "number"
  /\ value.f["sequence"].half % 2 = 0
  /\ value.f["sequence"].half >= 0

\* envelopeSchema.safeParse(value).success; payload is z.unknown(), which
\* accepts every value and a missing key.
envelopeSchema(value) ==
  /\ value.t = "object"
  /\ "kind" \in DOMAIN value.f
  /\ value.f["kind"].t = "string"
  /\ "stream" \in DOMAIN value.f
  /\ value.f["stream"].t = "string"
  /\ value.f["stream"].s \in Streams
  /\ "sequence" \in DOMAIN value.f
  /\ value.f["sequence"].t = "number"
  /\ value.f["sequence"].half % 2 = 0
  /\ value.f["sequence"].half >= 0

\* validated.data as Envelope<unknown>
EnvelopeOf(value) ==
  [kind |-> value.f["kind"].s,
   stream |-> value.f["stream"].s,
   sequence |-> value.f["sequence"].half \div 2,
   payload |-> IF "payload" \in DOMAIN value.f THEN value.f["payload"]
               ELSE Undefined]

\* Mutant: the previous sequence itself is expected again.
Expected_NoIncrement(seqs, stream, sequence) ==
  IF MapHas(seqs, stream) THEN seqs[stream] ELSE sequence

\* Mutant: a channel without a recorded sequence is expected to start at 0.
Expected_FromZero(seqs, stream, sequence) ==
  (IF MapHas(seqs, stream) THEN seqs[stream] ELSE -1) + 1

\* const prev = this.lastSeq.get(stream)
\* const expected = (prev ?? env.sequence - 1) + 1
Expected(seqs, stream, sequence) ==
  (IF MapHas(seqs, stream) THEN seqs[stream] ELSE sequence - 1) + 1

\* if (env.sequence !== expected && this.gapHandler)
\*   this.gapHandler(stream, expected, env.sequence)
GapCalls(seqs, observer, stream, sequence) ==
  IF sequence # Expected(seqs, stream, sequence) /\ observer # NoObserver
  THEN << [observer |-> observer, stream |-> stream,
           expected |-> Expected(seqs, stream, sequence), got |-> sequence] >>
  ELSE << >>

\* Mutant: one sequence counter shared by all channels.
Record_Shared(seqs, stream, sequence) ==
  [x \in DOMAIN seqs \cup {stream} |-> sequence]

\* Mutant: the recorded sequence never moves backwards.
Record_Max(seqs, stream, sequence) ==
  MapSet(seqs, stream,
         IF MapHas(seqs, stream) /\ seqs[stream] > sequence THEN seqs[stream]
         ELSE sequence)

\* this.lastSeq.set(stream, env.sequence)
Record(seqs, stream, sequence) == MapSet(seqs, stream, sequence)

\* this.handlers.get(stream) ?? []
HandlersOf(hs, stream) == IF MapHas(hs, stream) THEN hs[stream] ELSE << >>

\* Mutant: the handlers are invoked last subscribed first.
Dispatch_Reversed(hs, stream, env) ==
  [i \in 1..Len(HandlersOf(hs, stream)) |->
     [handler |-> HandlersOf(hs, stream)[Len(HandlersOf(hs, stream)) + 1 - i],
      env |-> env]]

\* Mutant: the handlers of another channel are invoked as well.
Dispatch_OtherChannelToo(hs, stream, env) ==
  [i \in 1..Len(HandlersOf(hs, stream)) |->
     [handler |-> HandlersOf(hs, stream)[i], env |-> env]]
    \o (IF DOMAIN hs \ {stream} = {} THEN << >>
        ELSE [i \in 1..Len(hs[CHOOSE x \in DOMAIN hs \ {stream} : TRUE]) |->
                [handler |-> hs[CHOOSE x \in DOMAIN hs \ {stream} : TRUE][i],
                 env |-> env]])

\* for (const handler of this.handlers.get(stream) ?? []) handler(env)
Dispatch(hs, stream, env) ==
  [i \in 1..Len(HandlersOf(hs, stream)) |->
     [handler |-> HandlersOf(hs, stream)[i], env |-> env]]

\* Mutant: the disposer drops the oldest registration of the channel.
Filter_DropsFirst(list, handler) ==
  IF list = << >> THEN list ELSE Tail(list)

\* (this.handlers.get(stream) ?? []).filter((h) => h !== handler)
Filter(list, handler) == SelectSeq(list, LAMBDA h : h # handler)

\* Mutant: text that is not JSON resets the sequence tracking of its channel.
handleMessage_ResetOnMalformed(stream, raw, seqs, hs, observer) ==
  IF Parsed(raw).threw
  THEN [outcome |-> "threw",
        lastSeq |-> [x \in DOMAIN seqs \ {stream} |-> seqs[x]],
        gaps |-> << >>, calls |-> << >>]
  ELSE IF ~envelopeSchema(Parsed(raw).value)
  THEN [outcome |-> "dropped", lastSeq |-> seqs, gaps |-> << >>, calls |-> << >>]
  ELSE LET env == EnvelopeOf(Parsed(raw).value) IN
       [outcome |-> "dispatched",
        gaps |-> GapCalls(seqs, observer, stream, env.sequence),
        lastSeq |-> Record(seqs, stream, env.sequence),
        calls |-> Dispatch(hs, stream, env)]

\* Mutant: an envelope that opens a gap is reported but not dispatched.
handleMessage_GapSkipsDispatch(stream, raw, seqs, hs, observer) ==
  IF Parsed(raw).threw
  THEN [outcome |-> "threw", lastSeq |-> seqs, gaps |-> << >>, calls |-> << >>]
  ELSE IF ~envelopeSchema(Parsed(raw).value)
  THEN [outcome |-> "dropped", lastSeq |-> seqs, gaps |-> << >>, calls |-> << >>]
  ELSE LET env == EnvelopeOf(Parsed(raw).value) IN
       [outcome |-> "dispatched",
        gaps |-> GapCalls(seqs, observer, stream, env.sequence),
        lastSeq |-> Record(seqs, stream, env.sequence),
        calls |-> IF GapCalls(seqs, observer, stream, env.sequence) # << >>
                  THEN << >> ELSE Dispatch(hs, stream, env)]

\* Mutant: without a gap observer a sequence that opens a gap is not recorded.
handleMessage_UnreportedGapNotRecorded(stream, raw, seqs, hs, observer) ==
  IF Parsed(raw).threw
  THEN [outcome |-> "threw", lastSeq |-> seqs, gaps |-> << >>, calls |-> << >>]
  ELSE IF ~envelopeSchema(Parsed(raw).value)
  THEN [outcome |-> "dropped", lastSeq |-> seqs, gaps |-> << >>, calls |-> << >>]
  ELSE LET env == EnvelopeOf(Parsed(raw).value) IN
       [outcome |-> "dispatched",
        gaps |-> GapCalls(seqs, observer, stream, env.sequence),
        lastSeq |-> IF /\ observer = NoObserver
                       /\ env.sequence # Expected(seqs, stream, env.sequence)
                    THEN seqs ELSE Record(seqs, stream, env.sequence),
        calls |-> Dispatch(hs, stream, env)]

\* Mutant: an envelope whose sequence is behind the expected one is recorded
\* but not dispatched.
handleMessage_SkipsStale(stream, raw, seqs, hs, observer) ==
  IF Parsed(raw).threw
  THEN [outcome |-> "threw", lastSeq |-> seqs, gaps |-> << >>, calls |-> << >>]
  ELSE IF ~envelopeSchema(Parsed(raw).value)
  THEN [outcome |-> "dropped", lastSeq |-> seqs, gaps |-> << >>, calls |-> << >>]
  ELSE LET env == EnvelopeOf(Parsed(raw).value) IN
       [outcome |-> "dispatched",
        gaps |-> GapCalls(seqs, observer, stream, env.sequence),
        lastSeq |-> Record(seqs, stream, env.sequence),
        calls |-> IF env.sequence < Expected(seqs, stream, env.sequence)
                  THEN << >> ELSE Dispatch(hs, stream, env)]

\* Mutant: the sequence is recorded before the gap observer is called.
EffectsInOrder_RecordFirst(stream, raw, seqs, hs, observer) ==
  IF Parsed(raw).threw \/ ~envelopeSchema(Parsed(raw).value) THEN << >>
  ELSE LET env == EnvelopeOf(Parsed(raw).value) IN
       << [e |-> "record", stream |-> stream, sequence |-> env.sequence] >>
         \o [k \in DOMAIN GapCalls(seqs, observer, stream, env.sequence) |->
               [e |-> "gap", call |-> GapCalls(seqs, observer, stream, env.sequence)[k]]]
         \o [k \in DOMAIN Dispatch(hs, stream, env) |->
               [e |-> "call", call |-> Dispatch(hs, stream, env)[k]]]

\* The effects of handleMessage in the order of its statements: the call of
\* the gap observer (line 64), lastSeq.set (line 65), the handler loop
\* (line 67).
EffectsInOrder(stream, raw, seqs, hs, observer) ==
  IF Parsed(raw).threw \/ ~envelopeSchema(Parsed(raw).value) THEN << >>
  ELSE LET env == EnvelopeOf(Parsed(raw).value) IN
       [k \in DOMAIN GapCalls(seqs, observer, stream, env.sequence) |->
          [e |-> "gap", call |-> GapCalls(seqs, observer, stream, env.sequence)[k]]]
         \o << [e |-> "record", stream |-> stream, sequence |-> env.sequence] >>
         \o [k \in DOMAIN Dispatch(hs, stream, env) |->
               [e |-> "call", call |-> Dispatch(hs, stream, env)[k]]]

\* private handleMessage(stream, raw): how it ends, the sequence map it
\* leaves, and the callbacks it makes.  JSON.parse is not guarded, so its
\* SyntaxError leaves the method ("threw") before anything is touched.
handleMessage(stream, raw, seqs, hs, observer) ==
  IF Parsed(raw).threw
  THEN [outcome |-> "threw", lastSeq |-> seqs, gaps |-> << >>, calls |-> << >>]
  ELSE IF ~envelopeSchema(Parsed(raw).value)
  THEN [outcome |-> "dropped", lastSeq |-> seqs, gaps |-> << >>, calls |-> << >>]
  ELSE LET env == EnvelopeOf(Parsed(raw).value) IN
       [outcome |-> "dispatched",
        gaps |-> GapCalls(seqs, observer, stream, env.sequence),
        lastSeq |-> Record(seqs, stream, env.sequence),
        calls |-> Dispatch(hs, stream, env)]

\* ---- initial state: new WebSocketManager() -----------------------------
Init ==
  /\ sockets = EmptyMap
  /\ handlers = EmptyMap
  /\ lastSeq = EmptyMap
  /\ gapHandler = NoObserver
  /\ ws = << >>
  /\ subs = << >>
  /\ calls = << >>
  /\ gaps = << >>
  /\ lastMsg = NoMessage
  /\ accepted = EmptyMap
  /\ live = << >>
  /\ invoked = {}
  /\ stale = {}
  /\ cleared = 0
  /\ via = EmptyMap
  /\ registered = NoObserver
  /\ arrived = << >>
  /\ delivered = [h \in HandlerIds |-> << >>]
  /\ since = [h \in HandlerIds |-> 0]
  /\ decoded = [decoder |-> "none"]
  /\ session = [mode |-> "PAPER", engineState |-> "PAUSED", role |-> "READ_ONLY",
                killSwitchActive |-> FALSE, sessionStartTs |-> SessionStartTs,
                equityWatermark |-> 0]
  /\ lastSet = [setter |-> "none"]
  /\ alerts = [alerts |-> << >>]
  /\ orders = [activeOrders |-> EmptyMap, history |-> << >>, fills |-> << >>]
  /\ risk = [metrics |-> "initial", limits |-> "initial", breaches |-> << >>]
  /\ domain = [prices |-> EmptyMap, positions |-> EmptyMap]
  /\ early = {}
  /\ panel = [isPermitted |-> FALSE, requests |-> << >>, last |-> [role |-> "none"]]
  /\ events = << >>

\* ---- operations ---------------------------------------------------------
\* Mutant: the first observer registered stays.
OnGapDetected_FirstWins(o) ==
  /\ gapHandler' = IF gapHandler = NoObserver THEN o ELSE gapHandler
  /\ calls' = << >>
  /\ gaps' = << >>
  /\ lastMsg' = NoMessage
  /\ UNCHANGED <<sockets, handlers, lastSeq, ws, subs, accepted, live>>

OnGapDetected(o) ==
  /\ gapHandler' = o
  /\ calls' = << >>
  /\ gaps' = << >>
  /\ lastMsg' = NoMessage
  /\ UNCHANGED <<sockets, handlers, lastSeq, ws, subs, accepted, live>>

\* Mutant: a handler is registered only on a channel that has a connection.
Subscribe_NeedsConnection(stream, h, maxSubs) ==
  /\ Len(subs) < maxSubs
  /\ h = 1 \/ \E i \in DOMAIN subs : subs[i].handler \in {h - 1, h}
  /\ handlers' = IF MapHas(sockets, stream)
                 THEN MapSet(handlers, stream, Append(HandlersOf(handlers, stream), h))
                 ELSE handlers
  /\ subs' = Append(subs, [stream |-> stream, handler |-> h])
  /\ live' = Append(live, TRUE)
  /\ calls' = << >>
  /\ gaps' = << >>
  /\ lastMsg' = NoMessage
  /\ UNCHANGED <<sockets, lastSeq, gapHandler, ws, accepted>>

\* The k-th distinct function that is subscribed is named k.
Subscribe(stream, h, maxSubs) ==
  /\ Len(subs) < maxSubs
  /\ h = 1 \/ \E i \in DOMAIN subs : subs[i].handler \in {h - 1, h}
  /\ handlers' = MapSet(handlers, stream, Append(HandlersOf(handlers, stream), h))
  /\ subs' = Append(subs, [stream |-> stream, handler |-> h])
  /\ live' = Append(live, TRUE)
  /\ calls' = << >>
  /\ gaps' = << >>
  /\ lastMsg' = NoMessage
  /\ UNCHANGED <<sockets, lastSeq, gapHandler, ws, accepted>>

\* The disposer returned by the i-th subscribe call.
Dispose(i) ==
  /\ i \in DOMAIN subs
  /\ handlers' = MapSet(handlers, subs[i].stream,
                        Filter(HandlersOf(handlers, subs[i].stream), subs[i].handler))
  /\ live' = [j \in DOMAIN live |-> live[j] /\ subs[j] # subs[i]]
  /\ calls' = << >>
  /\ gaps' = << >>
  /\ lastMsg' = NoMessage
  /\ UNCHANGED <<sockets, lastSeq, gapHandler, ws, subs, accepted>>

\* Mutant: connect starts the channel afresh, dropping its sequence and its
\* handlers.
Connect_ResetsChannel(stream, maxSockets) ==
  /\ Len(ws) < maxSockets
  /\ ws' = Append(ws, [stream |-> stream, readyState |-> "CONNECTING"])
  /\ sockets' = MapSet(sockets, stream, Len(ws) + 1)
  /\ lastSeq' = [x \in DOMAIN lastSeq \ {stream} |-> lastSeq[x]]
  /\ handlers' = [x \in DOMAIN handlers \ {stream} |-> handlers[x]]
  /\ calls' = << >>
  /\ gaps' = << >>
  /\ lastMsg' = NoMessage
  /\ UNCHANGED <<gapHandler, subs, accepted, live>>

\* Mutant: connect on a channel that has a socket restarts that socket
\* instead of creating a new one.
Connect_RestartsExisting(stream, maxSockets) ==
  /\ Len(ws) < maxSockets
  /\ ws' = IF MapHas(sockets, stream)
           THEN [ws EXCEPT ![sockets[stream]].readyState = "CONNECTING"]
           ELSE Append(ws, [stream |-> stream, readyState |-> "CONNECTING"])
  /\ sockets' = IF MapHas(sockets, stream) THEN sockets
                ELSE MapSet(sockets, stream, Len(ws) + 1)
  /\ calls' = << >>
  /\ gaps' = << >>
  /\ lastMsg' = NoMessage
  /\ UNCHANGED <<handlers, lastSeq, gapHandler, subs, accepted, live>>

\* new WebSocket(url) starts CONNECTING; the url plays no part in the manager.
Connect(stream, maxSockets) ==
  /\ Len(ws) < maxSockets
  /\ ws' = Append(ws, [stream |-> stream, readyState |-> "CONNECTING"])
  /\ sockets' = MapSet(sockets, stream, Len(ws) + 1)
  /\ calls' = << >>
  /\ gaps' = << >>
  /\ lastMsg' = NoMessage
  /\ UNCHANGED <<handlers, lastSeq, gapHandler, subs, accepted, live>>

\* Mutant: closeAll forgets the sockets without closing them.
CloseAll_OnlyClears ==
  /\ sockets' = EmptyMap
  /\ calls' = << >>
  /\ gaps' = << >>
  /\ lastMsg' = NoMessage
  /\ UNCHANGED <<handlers, lastSeq, gapHandler, ws, subs, accepted, live>>

\* ws.close() on every socket of the map, then sockets.clear().  A closed
\* socket delivers nothing more; CLOSING and CLOSED are not told apart.
CloseAll ==
  /\ ws' = [w \in DOMAIN ws |->
              IF \E s \in DOMAIN sockets : sockets[s] = w
              THEN [ws[w] EXCEPT !.readyState = "CLOSED"] ELSE ws[w]]
  /\ sockets' = EmptyMap
  /\ calls' = << >>
  /\ gaps' = << >>
  /\ lastMsg' = NoMessage
  /\ UNCHANGED <<handlers, lastSeq, gapHandler, subs, accepted, live>>

\* The transport signals readiness.
SocketOpen(w) ==
  /\ w \in DOMAIN ws
  /\ ws[w].readyState = "CONNECTING"
  /\ ws' = [ws EXCEPT ![w].readyState = "OPEN"]
  /\ calls' = << >>
  /\ gaps' = << >>
  /\ lastMsg' = NoMessage
  /\ UNCHANGED <<sockets, handlers, lastSeq, gapHandler, subs, accepted, live>>

\* Mutant: a close handler that connects the channel again.
SocketClosed_Reconnects(w) ==
  /\ w \in DOMAIN ws
  /\ ws[w].readyState \in {"CONNECTING", "OPEN"}
  /\ ws' = Append([ws EXCEPT ![w].readyState = "CLOSED"],
                  [stream |-> ws[w].stream, readyState |-> "CONNECTING"])
  /\ sockets' = MapSet(sockets, ws[w].stream, Len(ws) + 1)
  /\ calls' = << >>
  /\ gaps' = << >>
  /\ lastMsg' = NoMessage
  /\ UNCHANGED <<handlers, lastSeq, gapHandler, subs, accepted, live>>

\* A transport error or a close by the peer.  connect installs onmessage
\* only: no close or error handler runs in the manager.
SocketClosed(w) ==
  /\ w \in DOMAIN ws
  /\ ws[w].readyState \in {"CONNECTING", "OPEN"}
  /\ ws' = [ws EXCEPT ![w].readyState = "CLOSED"]
  /\ calls' = << >>
  /\ gaps' = << >>
  /\ lastMsg' = NoMessage
  /\ UNCHANGED <<sockets, handlers, lastSeq, gapHandler, subs, accepted, live>>

\* The manager's state, as a message finds it.
Snapshot ==
  [sockets |-> sockets, handlers |-> handlers, lastSeq |-> lastSeq,
   gapHandler |-> gapHandler, ws |-> ws]

\* ws.onmessage = (event) => this.handleMessage(stream, event.data); a
\* WebSocket delivers message events only while it is OPEN.
OnMessage(w, raw) ==
  /\ w \in DOMAIN ws
  /\ ws[w].readyState = "OPEN"
  /\ \E r \in {handleMessage(ws[w].stream, raw, lastSeq, handlers, gapHandler)} :
        /\ lastSeq' = r.lastSeq
        /\ gaps' = r.gaps
        /\ calls' = r.calls
        /\ lastMsg' = [outcome |-> r.outcome, stream |-> ws[w].stream,
                       socket |-> w, raw |-> raw,
                       prev |-> IF MapHas(accepted, ws[w].stream)
                                THEN accepted[ws[w].stream] ELSE NoSeq,
                       stale |-> ws[w].stream \in stale,
                       via |-> IF MapHas(via, ws[w].stream)
                               THEN via[ws[w].stream] ELSE NoSocket,
                       before |-> Snapshot]
  /\ accepted' = IF ~Parsed(raw).threw /\ envelopeSchema(Parsed(raw).value)
                 THEN MapSet(accepted, ws[w].stream,
                             EnvelopeOf(Parsed(raw).value).sequence)
                 ELSE accepted
  /\ UNCHANGED <<sockets, handlers, gapHandler, ws, subs, live>>

\* ---- handlers that call back into the manager ----------------------------
\* What a handler does to the manager while it is being invoked: nothing, a
\* subscribe call for its channel, or a call of a disposer.
Effects(c) ==
  {[op |-> "none"]}
    \cup {[op |-> "subscribe", stream |-> c, handler |-> h] : h \in HandlerIds}
    \cup {[op |-> "dispose", i |-> i] : i \in 1..MaxSubs}

\* Handler h makes the call e when it is invoked, the others make none.
Does(h, e) == [x \in HandlerIds |-> IF x = h THEN e ELSE [op |-> "none"]]

\* The registry (handlers map, disposers, their history) after a handler has
\* made the call e: subscribe builds a new array and sets it, the disposer
\* filters into a new array and sets it; the array being iterated is never
\* changed in place.  A subscribe call beyond the bound of the model, or of a
\* function named out of turn, is not made.
Invoke(e, st) ==
  IF /\ e.op = "subscribe"
     /\ Len(st.subs) < MaxSubs
     /\ e.handler = 1 \/ \E i \in DOMAIN st.subs : st.subs[i].handler \in {e.handler - 1, e.handler}
  THEN [st EXCEPT
          !.handlers = MapSet(@, e.stream, Append(HandlersOf(@, e.stream), e.handler)),
          !.subs = Append(@, [stream |-> e.stream, handler |-> e.handler]),
          !.live = Append(@, TRUE)]
  ELSE IF e.op = "dispose" /\ e.i \in DOMAIN st.subs
  THEN [st EXCEPT
          !.handlers = MapSet(@, st.subs[e.i].stream,
                              Filter(HandlersOf(@, st.subs[e.i].stream),
                                     st.subs[e.i].handler)),
          !.live = [j \in DOMAIN @ |-> @[j] /\ st.subs[j] # st.subs[e.i]]]
  ELSE st

\* Mutant: every turn of the loop reads the channel's current handler list.
RECURSIVE DispatchLoop_LiveList(_, _, _, _, _, _)
DispatchLoop_LiveList(stream, arr, k, env, does, st) ==
  IF k > Len(HandlersOf(st.handlers, stream)) THEN st
  ELSE DispatchLoop_LiveList(stream, arr, k + 1, env, does,
         Invoke(does[HandlersOf(st.handlers, stream)[k]],
                [st EXCEPT !.calls =
                   Append(@, [handler |-> HandlersOf(st.handlers, stream)[k],
                              env |-> env])]))

\* for (const handler of this.handlers.get(stream) ?? []) handler(env), from
\* its k-th turn on: arr is the array the loop obtained once, before its
\* first turn; handler h makes the call does[h] when it is invoked.
RECURSIVE DispatchLoop(_, _, _, _, _, _)
DispatchLoop(stream, arr, k, env, does, st) ==
  IF k > Len(arr) THEN st
  ELSE DispatchLoop(stream, arr, k + 1, env, does,
         Invoke(does[arr[k]],
                [st EXCEPT !.calls = Append(@, [handler |-> arr[k], env |-> env])]))

\* The registry as a dispatch finds it, no handler invoked yet.
Registry == [handlers |-> handlers, subs |-> subs, live |-> live, calls |-> << >>]

\* ws.onmessage with handlers that call back into the manager: handleMessage
\* up to the dispatch loop, then the loop.
OnMessageReentrant(w, raw, does) ==
  /\ w \in DOMAIN ws
  /\ ws[w].readyState = "OPEN"
  /\ \E r \in {handleMessage(ws[w].stream, raw, lastSeq, handlers, gapHandler)} :
     \E d \in {IF r.outcome = "dispatched"
                THEN DispatchLoop(ws[w].stream, HandlersOf(handlers, ws[w].stream),
                                  1, EnvelopeOf(Parsed(raw).value), does, Registry)
                ELSE Registry} :
        /\ lastSeq' = r.lastSeq
        /\ gaps' = r.gaps
        /\ calls' = d.calls
        /\ handlers' = d.handlers
        /\ subs' = d.subs
        /\ live' = d.live
        /\ lastMsg' = [outcome |-> r.outcome, stream |-> ws[w].stream,
                       socket |-> w, raw |-> raw,
                       prev |-> IF MapHas(accepted, ws[w].stream)
                                THEN accepted[ws[w].stream] ELSE NoSeq,
                       stale |-> ws[w].stream \in stale,
                       via |-> IF MapHas(via, ws[w].stream)
                               THEN via[ws[w].stream] ELSE NoSocket,
                       before |-> Snapshot]
  /\ accepted' = IF ~Parsed(raw).threw /\ envelopeSchema(Parsed(raw).value)
                 THEN MapSet(accepted, ws[w].stream,
                             EnvelopeOf(Parsed(raw).value).sequence)
                 ELSE accepted
  /\ UNCHANGED <<sockets, gapHandler, ws>>

\* The raw messages the transport of channel c delivers.
Inputs(c, everyKind) == IF everyKind THEN RawInputs[c] ELSE CoreInputs[c]

\* The histories of closeAll and of the disposers are kept by the
\* specifications whose properties read them, and stand still in the others.
NoOrder == UNCHANGED <<arrived, delivered, since, early>>
NoDecode == UNCHANGED decoded
NoSession == UNCHANGED <<session, lastSet>>
NoStores == NoSession /\ UNCHANGED <<alerts, orders, risk, domain>>
NoEvents == UNCHANGED events
NoPanel == UNCHANGED panel
NoLog == NoOrder /\ NoDecode /\ NoStores /\ NoEvents /\ NoPanel
NoLife == UNCHANGED <<invoked, stale, cleared, via, registered>>
NoHistory == NoLife /\ NoLog

\* Every operation; the callers create at most maxSockets connections, make
\* at most maxSubs subscribe calls and register the given observers; the
\* transports deliver every kind of raw message, or the core ones.
Step(maxSockets, maxSubs, observers, everyKind) ==
  \/ \E o \in observers : OnGapDetected(o) /\ NoHistory
  \/ \E s \in Channels, h \in HandlerIds : Subscribe(s, h, maxSubs) /\ NoHistory
  \/ \E i \in 1..MaxSubs : Dispose(i) /\ NoHistory
  \/ \E s \in Channels : Connect(s, maxSockets) /\ NoHistory
  \/ CloseAll /\ NoHistory
  \/ \E w \in 1..MaxSockets : SocketOpen(w) /\ NoHistory
  \/ \E w \in 1..MaxSockets : SocketClosed(w) /\ NoHistory
  \/ \E w \in DOMAIN ws : \E raw \in Inputs(ws[w].stream, everyKind) :
        OnMessage(w, raw) /\ NoHistory

\* Several connections, one subscriber, one gap observer.
Next == Step(MaxSockets, 1, {"o1"}, FALSE)
Spec == Init /\ [][Next]_vars

\* One connection, several subscribers, one gap observer.
NextReg == Step(1, MaxSubs, {"o1"}, FALSE)
SpecReg == Init /\ [][NextReg]_vars

\* One connection, one subscriber, one gap observer, every kind of raw message.
NextRaw == Step(1, 1, {"o1"}, TRUE)
SpecRaw == Init /\ [][NextRaw]_vars

\* The connection lifecycle: several connections of one channel, made one
\* after the other, one subscriber, one gap observer, with the history of
\* closeAll.
NextLife ==
  \/ \E o \in {"o1"} : OnGapDetected(o) /\ NoHistory
  \/ \E s \in LifeChannels, h \in HandlerIds : Subscribe(s, h, 1) /\ NoHistory
  \/ \E i \in 1..MaxSubs : Dispose(i) /\ NoHistory
  \/ \E s \in LifeChannels : Connect(s, MaxSockets) /\ NoHistory
  \/ /\ CloseAll
     /\ stale' = DOMAIN accepted
     /\ cleared' = Len(subs)
     /\ UNCHANGED <<invoked, via, registered>>
     /\ NoLog
  \/ \E w \in 1..MaxSockets : SocketOpen(w) /\ NoHistory
  \/ \E w \in 1..MaxSockets : SocketClosed(w) /\ NoHistory
  \/ \E w \in DOMAIN ws : \E raw \in Inputs(ws[w].stream, FALSE) :
        /\ OnMessage(w, raw)
        /\ stale' = IF lastMsg'.outcome = "dispatched"
                    THEN stale \ {lastMsg'.stream} ELSE stale
        /\ via' = IF lastMsg'.outcome = "dispatched"
                  THEN MapSet(via, lastMsg'.stream, w) ELSE via
        /\ UNCHANGED <<invoked, cleared, registered>>
        /\ NoLog
SpecLife == Init /\ [][NextLife]_vars

\* The gap observers: one connection, one subscriber, two observers of which
\* the one registered first is named o1, with the history of onGapDetected.
NextObs ==
  \/ \E o \in Observers :
        /\ o = "o1" \/ registered # NoObserver
        /\ OnGapDetected(o)
        /\ registered' = o
        /\ UNCHANGED <<invoked, stale, cleared, via>>
        /\ NoLog
  \/ \E s \in Channels, h \in HandlerIds : Subscribe(s, h, 1) /\ NoHistory
  \/ \E i \in 1..MaxSubs : Dispose(i) /\ NoHistory
  \/ \E s \in Channels : Connect(s, 1) /\ NoHistory
  \/ CloseAll /\ NoHistory
  \/ \E w \in 1..MaxSockets : SocketOpen(w) /\ NoHistory
  \/ \E w \in 1..MaxSockets : SocketClosed(w) /\ NoHistory
  \/ \E w \in DOMAIN ws : \E raw \in Inputs(ws[w].stream, FALSE) :
        OnMessage(w, raw) /\ NoHistory
SpecObs == Init /\ [][NextObs]_vars

\* Dispatch to handlers that call back into the manager: one connection of
\* one channel, several subscribers; in a dispatch either no handler makes a
\* call, or one of the channel's handlers makes a call that changes the
\* registry.
NextReent ==
  \/ \E o \in {"o1"} : OnGapDetected(o) /\ NoHistory
  \/ \E s \in LifeChannels, h \in HandlerIds : Subscribe(s, h, MaxSubs) /\ NoHistory
  \/ \E i \in 1..MaxSubs : Dispose(i) /\ NoHistory
  \/ \E s \in LifeChannels : Connect(s, 1) /\ NoHistory
  \/ CloseAll /\ NoHistory
  \/ \E w \in 1..MaxSockets : SocketOpen(w) /\ NoHistory
  \/ \E w \in 1..MaxSockets : SocketClosed(w) /\ NoHistory
  \/ \E w \in DOMAIN ws : \E raw \in Inputs(ws[w].stream, FALSE) :
        OnMessage(w, raw) /\ NoHistory
  \/ \E w \in DOMAIN ws : \E h \in HandlerIds, e \in Effects(ws[w].stream) :
        /\ \E k \in DOMAIN HandlersOf(handlers, ws[w].stream) :
              HandlersOf(handlers, ws[w].stream)[k] = h
        /\ Invoke(e, Registry) # Registry
        /\ OnMessageReentrant(w, JsonText(WireEnvelope("tick", ws[w].stream, 0)),
                              Does(h, e))
        /\ NoHistory
SpecReent == Init /\ [][NextReent]_vars

\* The disposers: one connection of one channel, several subscribers, with
\* the history of the disposers invoked.
NextDisp ==
  \/ \E o \in {"o1"} : OnGapDetected(o) /\ NoHistory
  \/ \E s \in LifeChannels, h \in HandlerIds : Subscribe(s, h, MaxSubs) /\ NoHistory
  \/ \E i \in 1..MaxSubs :
        /\ Dispose(i)
        /\ invoked' = invoked \cup {i}
        /\ UNCHANGED <<stale, cleared, via, registered>>
        /\ NoLog
  \/ \E s \in LifeChannels : Connect(s, 1) /\ NoHistory
  \/ CloseAll /\ NoHistory
  \/ \E w \in 1..MaxSockets : SocketOpen(w) /\ NoHistory
  \/ \E w \in 1..MaxSockets : SocketClosed(w) /\ NoHistory
  \/ \E w \in DOMAIN ws : \E raw \in Inputs(ws[w].stream, FALSE) :
        OnMessage(w, raw) /\ NoHistory
SpecDisp == Init /\ [][NextDisp]_vars

\* The order of delivery: one connection of one channel, two
\* subscribers, with the log of the validated envelopes and of the
\* invocations of each handler.
LogCalls(log, cs, at) ==
  [h \in HandlerIds |->
     log[h] \o [k \in 1..Len(SelectSeq(cs, LAMBDA c : c.handler = h)) |->
                 [at |-> at, env |-> SelectSeq(cs, LAMBDA c : c.handler = h)[k].env]]]

NextOrder ==
  \/ \E o \in {"o1"} : OnGapDetected(o) /\ NoHistory
  \/ \E s \in LifeChannels, h \in HandlerIds :
        /\ Subscribe(s, h, 2)
        /\ since' = [since EXCEPT ![h] = Len(arrived)]
        /\ early' = IF \A w \in DOMAIN ws : ws[w].stream # s
                    THEN early \cup {Len(subs) + 1} ELSE early
        /\ UNCHANGED <<arrived, delivered>>
        /\ NoLife /\ NoDecode /\ NoStores /\ NoEvents /\ NoPanel
  \/ \E i \in 1..MaxSubs : Dispose(i) /\ NoHistory
  \/ \E s \in LifeChannels : Connect(s, 1) /\ NoHistory
  \/ CloseAll /\ NoHistory
  \/ \E w \in 1..MaxSockets : SocketOpen(w) /\ NoHistory
  \/ \E w \in 1..MaxSockets : SocketClosed(w) /\ NoHistory
  \/ \E w \in DOMAIN ws : \E raw \in Inputs(ws[w].stream, FALSE) :
        /\ Len(arrived) < MaxLog
        /\ OnMessage(w, raw)
        /\ arrived' = IF lastMsg'.outcome = "dispatched"
                      THEN Append(arrived, EnvelopeOf(Parsed(raw).value))
                      ELSE arrived
        /\ delivered' = LogCalls(delivered, calls', Len(arrived'))
        /\ UNCHANGED <<since, early>>
        /\ NoLife /\ NoDecode /\ NoStores /\ NoEvents /\ NoPanel
SpecOrder == Init /\ [][NextOrder]_vars

\* The order of the effects of one message: one connection of one channel,
\* two subscribers, one gap observer.
Quiet ==
  events' = << >> /\ NoLife /\ NoOrder /\ NoDecode /\ NoStores /\ NoPanel

NextSteps ==
  \/ \E o \in {"o1"} : OnGapDetected(o) /\ Quiet
  \/ \E s \in LifeChannels, h \in HandlerIds : Subscribe(s, h, 2) /\ Quiet
  \/ \E i \in 1..MaxSubs : Dispose(i) /\ Quiet
  \/ \E s \in LifeChannels : Connect(s, 1) /\ Quiet
  \/ CloseAll /\ Quiet
  \/ \E w \in 1..MaxSockets : SocketOpen(w) /\ Quiet
  \/ \E w \in 1..MaxSockets : SocketClosed(w) /\ Quiet
  \/ \E w \in DOMAIN ws : \E raw \in Inputs(ws[w].stream, FALSE) :
        /\ OnMessage(w, raw)
        /\ events' = EffectsInOrder(ws[w].stream, raw, lastSeq, handlers, gapHandler)
        /\ NoLife /\ NoOrder /\ NoDecode /\ NoStores /\ NoPanel
SpecSteps == Init /\ [][NextSteps]_vars

\* ---- callbacks that throw -------------------------------------------------
\* for (const handler of ...) handler(env) with handlers that throw: the
\* exception of a handler leaves the loop, so the invocations made are those
\* up to and including the first handler that throws.
FirstThrower(list, throwers) ==
  IF \E k \in DOMAIN list : list[k] \in throwers
  THEN CHOOSE k \in DOMAIN list :
         /\ list[k] \in throwers
         /\ \A j \in 1..(k - 1) : list[j] \notin throwers
  ELSE 0
DispatchThrowing(hs, stream, env, throwers) ==
  IF FirstThrower(HandlersOf(hs, stream), throwers) = 0
  THEN Dispatch(hs, stream, env)
  ELSE SubSeq(Dispatch(hs, stream, env), 1,
              FirstThrower(HandlersOf(hs, stream), throwers))

\* handleMessage when the handlers in throwers throw and, with
\* observerThrows, the gap observer throws: no statement of the method is
\* inside a try, so an exception of the observer (line 64) leaves it before
\* lastSeq.set (line 65) and the loop (line 67), and an exception of a
\* handler leaves it inside the loop.
handleMessageThrowing(stream, raw, seqs, hs, observer, throwers, observerThrows) ==
  IF Parsed(raw).threw
  THEN [outcome |-> "threw", lastSeq |-> seqs, gaps |-> << >>, calls |-> << >>]
  ELSE IF ~envelopeSchema(Parsed(raw).value)
  THEN [outcome |-> "dropped", lastSeq |-> seqs, gaps |-> << >>, calls |-> << >>]
  ELSE LET env == EnvelopeOf(Parsed(raw).value) IN
       IF observerThrows /\ GapCalls(seqs, observer, stream, env.sequence) # << >>
       THEN [outcome |-> "threw", lastSeq |-> seqs,
             gaps |-> GapCalls(seqs, observer, stream, env.sequence),
             calls |-> << >>]
       ELSE [outcome |-> IF FirstThrower(HandlersOf(hs, stream), throwers) = 0
                         THEN "dispatched" ELSE "threw",
             gaps |-> GapCalls(seqs, observer, stream, env.sequence),
             lastSeq |-> Record(seqs, stream, env.sequence),
             calls |-> DispatchThrowing(hs, stream, env, throwers)]

\* The onmessage callback of socket w with callbacks that throw.
OnMessageThrowing(w, raw, throwers, observerThrows) ==
  /\ w \in DOMAIN ws
  /\ ws[w].readyState = "OPEN"
  /\ \E r \in {handleMessageThrowing(ws[w].stream, raw, lastSeq, handlers,
                                      gapHandler, throwers, observerThrows)} :
        /\ lastSeq' = r.lastSeq
        /\ gaps' = r.gaps
        /\ calls' = r.calls
        /\ lastMsg' = [outcome |-> r.outcome, stream |-> ws[w].stream,
                       socket |-> w, raw |-> raw,
                       prev |-> IF MapHas(accepted, ws[w].stream)
                                THEN accepted[ws[w].stream] ELSE NoSeq,
                       stale |-> ws[w].stream \in stale,
                       via |-> IF MapHas(via, ws[w].stream)
                               THEN via[ws[w].stream] ELSE NoSocket,
                       before |-> Snapshot,
                       throwers |-> throwers, observerThrows |-> observerThrows]
  /\ accepted' = IF ~Parsed(raw).threw /\ envelopeSchema(Parsed(raw).value)
                 THEN MapSet(accepted, ws[w].stream,
                             EnvelopeOf(Parsed(raw).value).sequence)
                 ELSE accepted
  /\ UNCHANGED <<sockets, handlers, gapHandler, ws, subs, live>>

\* Callbacks that throw: one connection of one channel, two subscribers, one
\* gap observer; in each message any of the handlers and the observer may
\* throw.
NextThrow ==
  \/ \E o \in {"o1"} : OnGapDetected(o) /\ NoHistory
  \/ \E s \in LifeChannels, h \in HandlerIds : Subscribe(s, h, 2) /\ NoHistory
  \/ \E i \in 1..MaxSubs : Dispose(i) /\ NoHistory
  \/ \E s \in LifeChannels : Connect(s, 1) /\ NoHistory
  \/ CloseAll /\ NoHistory
  \/ \E w \in 1..MaxSockets : SocketOpen(w) /\ NoHistory
  \/ \E w \in 1..MaxSockets : SocketClosed(w) /\ NoHistory
  \/ \E w \in DOMAIN ws : \E raw \in Inputs(ws[w].stream, FALSE) :
        \E throwers \in SUBSET (1..2), observerThrows \in BOOLEAN :
           OnMessageThrowing(w, raw, throwers, observerThrows) /\ NoHistory
SpecThrow == Init /\ [][NextThrow]_vars

\* ---- stream decoders ------------------------------------------------------
\* Each decoder returns data.payload; a call ends with a value or throws.
toMarketTick(data) == [threw |-> FALSE, value |-> data.payload]
toOrderEvent(data) == [threw |-> FALSE, value |-> data.payload]
toPositionSnapshot(data) == [threw |-> FALSE, value |-> data.payload]
toRiskMetrics(data) == [threw |-> FALSE, value |-> data.payload]

\* Mutant: the decoder is strict about the kind of the envelope.
toAlert_ChecksKind(data) ==
  IF data.kind = "alert" THEN [threw |-> FALSE, value |-> data.payload]
  ELSE [threw |-> TRUE]

toAlert(data) == [threw |-> FALSE, value |-> data.payload]

DecoderNames ==
  {"toMarketTick", "toOrderEvent", "toPositionSnapshot", "toRiskMetrics", "toAlert"}
ApplyDecoder(d, data) ==
  CASE d = "toMarketTick" -> toMarketTick(data)
    [] d = "toOrderEvent" -> toOrderEvent(data)
    [] d = "toPositionSnapshot" -> toPositionSnapshot(data)
    [] d = "toRiskMetrics" -> toRiskMetrics(data)
    [] d = "toAlert" -> toAlert(data)

\* What the server sends to subscribers that decode: envelopes of several
\* kinds with payloads of several shapes, and one without a payload.
DecoderInputs ==
  {JsonText(With(With(BaseEnvelope, "kind", Str(k)), "payload", p)) :
     k \in {"tick", "alert"},
     p \in {Obj(<<>>), Obj([id |-> Str("a1")]), Null, Num(3)}}
    \cup {JsonText(Without(BaseEnvelope, "payload"))}

\* The handler applies decoder d to the envelope it was invoked with.
Decode(d) ==
  /\ calls # << >>
  /\ UNCHANGED <<sockets, handlers, lastSeq, gapHandler, ws, subs, calls, gaps,
                 lastMsg, accepted, live>>
  /\ decoded' = [decoder |-> d, env |-> calls[1].env,
                 result |-> ApplyDecoder(d, calls[1].env), raw |-> lastMsg.raw,
                 before |-> Snapshot, after |-> Snapshot']

\* The decoders: one connection of one channel, one subscriber that applies
\* a decoder to the envelope it receives.
NextDecode ==
  \/ \E o \in {"o1"} : OnGapDetected(o) /\ NoHistory
  \/ \E s \in LifeChannels, h \in HandlerIds : Subscribe(s, h, 1) /\ NoHistory
  \/ \E i \in 1..MaxSubs : Dispose(i) /\ NoHistory
  \/ \E s \in LifeChannels : Connect(s, 1) /\ NoHistory
  \/ CloseAll /\ NoHistory
  \/ \E w \in 1..MaxSockets : SocketOpen(w) /\ NoHistory
  \/ \E w \in 1..MaxSockets : SocketClosed(w) /\ NoHistory
  \/ \E w \in DOMAIN ws : \E raw \in DecoderInputs :
        OnMessage(w, raw) /\ NoHistory
  \/ \E d \in DecoderNames : Decode(d) /\ NoLife /\ NoOrder /\ NoStores /\ NoEvents
                                   /\ NoPanel
SpecDecode == Init /\ [][NextDecode]_vars

\* ---- the session store ----------------------------------------------------
Modes == {"LIVE", "PAPER", "BACKTEST"}
EngineStates == {"RUNNING", "PAUSED", "HALTED"}
Roles == {"READ_ONLY", "PAPER_TRADER", "LIVE_TRADER", "ADMIN"}

\* zustand's set(partial): the partial is merged into the state.
ZSet(state, partial) ==
  [k \in DOMAIN state \cup DOMAIN partial |->
     IF k \in DOMAIN partial THEN partial[k] ELSE state[k]]

setMode(s, mode) == ZSet(s, [mode |-> mode])
setEngineState(s, engineState) == ZSet(s, [engineState |-> engineState])
setRole(s, role) == ZSet(s, [role |-> role])

\* Mutant: activating the kill switch halts the engine as well.
setKillSwitch_AlsoHalts(s, killSwitchActive) ==
  ZSet(s, [killSwitchActive |-> killSwitchActive,
           engineState |-> IF killSwitchActive THEN "HALTED" ELSE s.engineState])

setKillSwitch(s, killSwitchActive) ==
  ZSet(s, [killSwitchActive |-> killSwitchActive])
setEquityWatermark(s, equityWatermark) ==
  ZSet(s, [equityWatermark |-> equityWatermark])

\* The manager is not involved in a store operation.
NoManager ==
  UNCHANGED <<sockets, handlers, lastSeq, gapHandler, ws, subs, calls, gaps,
              lastMsg, accepted, live>>

SessionSet(setter, arg, after) ==
  /\ session' = after
  /\ lastSet' = [setter |-> setter, arg |-> arg, before |-> session]
  /\ NoManager /\ NoLife /\ NoOrder /\ NoDecode /\ NoEvents
  /\ UNCHANGED <<alerts, orders, risk, domain>>

SetMode(mode) == SessionSet("setMode", mode, setMode(session, mode))
SetEngineState(state) ==
  SessionSet("setEngineState", state, setEngineState(session, state))
SetRole(role) == SessionSet("setRole", role, setRole(session, role))
SetKillSwitch(active) ==
  SessionSet("setKillSwitch", active, setKillSwitch(session, active))
SetEquityWatermark(value) ==
  SessionSet("setEquityWatermark", value, setEquityWatermark(session, value))

NextSession ==
  \/ \E mode \in Modes : SetMode(mode) /\ NoPanel
  \/ \E state \in EngineStates : SetEngineState(state) /\ NoPanel
  \/ \E role \in Roles : SetRole(role) /\ NoPanel
  \/ \E active \in BOOLEAN : SetKillSwitch(active) /\ NoPanel
  \/ \E value \in 0..MaxWatermark : SetEquityWatermark(value) /\ NoPanel
SpecSession == Init /\ [][NextSession]_vars

\* ---- the kill-switch action ------------------------------------------------
\* Mutant: only an administrator is permitted.
isPermitted_AdminOnly(role) == role = "ADMIN"

\* const isPermitted = role !== 'READ_ONLY'
isPermitted(role) == role # "READ_ONLY"

\* apiClient.killSwitch(active): one POST /session/kill-switch.
killSwitch(active) ==
  [method |-> "POST", path |-> "/session/kill-switch", active |-> active]

\* activateKillSwitch: isPermitted ? killSwitchMutation.mutate(true) : undefined,
\* with the isPermitted of the render that made the function; mutate calls
\* the mutationFn once.
activateKillSwitch(permitted, requests) ==
  IF permitted THEN Append(requests, killSwitch(TRUE)) ELSE requests

\* The role changes and the panel, subscribed to the role through the
\* store's selector, is rendered again before the next event.
SetRoleRendered(role) ==
  /\ SetRole(role)
  /\ panel' = [panel EXCEPT !.isPermitted = isPermitted(role)]

\* A call of the activateKillSwitch the panel holds.
ActivateKillSwitch ==
  /\ Len(panel.requests) < MaxRequests
  /\ panel' = [panel EXCEPT
                 !.requests = activateKillSwitch(panel.isPermitted, panel.requests),
                 !.last = [role |-> session.role, before |-> panel.requests]]
  /\ NoManager /\ NoLife /\ NoOrder /\ NoDecode /\ NoStores /\ NoEvents

NextKill ==
  \/ \E mode \in Modes : SetMode(mode) /\ NoPanel
  \/ \E role \in Roles : SetRoleRendered(role)
  \/ \E active \in BOOLEAN : SetKillSwitch(active) /\ NoPanel
  \/ ActivateKillSwitch
SpecKill == Init /\ [][NextKill]_vars

\* ---- the alert, order and risk stores --------------------------------------
\* What the callers add: alerts and breaches (not yet acknowledged), the
\* states of an order, fills; metrics and limits are the initial object or
\* another one.
AlertInputs ==
  {[id |-> i, severity |-> "WARN", acknowledged |-> FALSE] : i \in {"a1", "a2"}}
\* The ids an operator can pass to acknowledge: those of the alerts that
\* arrive, and one no alert carries.
AlertIds == {"a1", "a2", "a3"}
OrderInputs == {[id |-> "o1", status |-> st] : st \in {"OPEN", "FILLED"}}
FillInputs == {[id |-> "f1"], [id |-> "f2"]}
MetricsInputs == {"initial", "other"}

\* Mutant: the last n entries are kept (slice(-n)).
Slice_FromEnd(list, n) ==
  SubSeq(list, IF Len(list) < n THEN 1 ELSE Len(list) - n + 1, Len(list))

\* list.slice(0, n)
Slice(list, n) == SubSeq(list, 1, IF Len(list) < n THEN Len(list) ELSE n)

\* [alert, ...s.alerts].slice(0, 5000)
addAlert(s, alert) ==
  ZSet(s, [alerts |-> Slice(<<alert>> \o s.alerts, HistoryCap)])
\* Mutant: the flag of the matching alerts is flipped.
acknowledge_Toggles(s, id) ==
  ZSet(s, [alerts |-> [k \in DOMAIN s.alerts |->
                         IF s.alerts[k].id = id
                         THEN ZSet(s.alerts[k],
                                   [acknowledged |-> ~s.alerts[k].acknowledged])
                         ELSE s.alerts[k]]])
\* s.alerts.map((a) => (a.id === id ? { ...a, acknowledged: true } : a))
acknowledge(s, id) ==
  ZSet(s, [alerts |-> [k \in DOMAIN s.alerts |->
                         IF s.alerts[k].id = id
                         THEN ZSet(s.alerts[k], [acknowledged |-> TRUE])
                         ELSE s.alerts[k]]])
upsertOrder(s, order) ==
  ZSet(s, [activeOrders |-> MapSet(s.activeOrders, order.id, order),
           history |-> Slice(<<order>> \o s.history, HistoryCap)])
addFill(s, fill) ==
  ZSet(s, [fills |-> Slice(<<fill>> \o s.fills, HistoryCap)])
setMetrics(s, metrics) == ZSet(s, [metrics |-> metrics])
setLimits(s, limits) == ZSet(s, [limits |-> limits])
addBreach(s, alert) ==
  ZSet(s, [breaches |-> Slice(<<alert>> \o s.breaches, BreachCap)])

NoOthers ==
  /\ NoManager /\ NoLife /\ NoOrder /\ NoDecode /\ NoSession /\ NoEvents
  /\ NoPanel /\ UNCHANGED domain

AddAlert(alert) ==
  alerts' = addAlert(alerts, alert) /\ UNCHANGED <<orders, risk>> /\ NoOthers
Acknowledge(id) ==
  alerts' = acknowledge(alerts, id) /\ UNCHANGED <<orders, risk>> /\ NoOthers
UpsertOrder(order) ==
  orders' = upsertOrder(orders, order) /\ UNCHANGED <<alerts, risk>> /\ NoOthers
AddFill(fill) ==
  orders' = addFill(orders, fill) /\ UNCHANGED <<alerts, risk>> /\ NoOthers
SetMetrics(metrics) ==
  risk' = setMetrics(risk, metrics) /\ UNCHANGED <<alerts, orders>> /\ NoOthers
SetLimits(limits) ==
  risk' = setLimits(risk, limits) /\ UNCHANGED <<alerts, orders>> /\ NoOthers
AddBreach(alert) ==
  risk' = addBreach(risk, alert) /\ UNCHANGED <<alerts, orders>> /\ NoOthers

NextAudit ==
  \/ \E alert \in AlertInputs : AddAlert(alert)
  \/ \E id \in AlertIds : Acknowledge(id)
  \/ \E order \in OrderInputs : UpsertOrder(order)
  \/ \E fill \in FillInputs : AddFill(fill)
  \/ \E metrics \in MetricsInputs : SetMetrics(metrics)
  \/ \E limits \in MetricsInputs : SetLimits(limits)
  \/ \E alert \in AlertInputs : AddBreach(alert)
SpecAudit == Init /\ [][NextAudit]_vars

\* ---- bootstrapStreams --------------------------------------------------------
\* upsertTick: prices: { ...s.prices, [tick.symbol]: tick }
upsertTick(s, tick) == ZSet(s, [prices |-> MapSet(s.prices, tick.symbol, tick)])
\* setPositions: positions: Object.fromEntries(positions.map((p) => [p.symbol, p]))
setPositions(s, list) ==
  ZSet(s, [positions |->
             [sym \in {list[k].symbol : k \in DOMAIN list} |->
                list[CHOOSE k \in DOMAIN list :
                       /\ list[k].symbol = sym
                       /\ \A j \in DOMAIN list : list[j].symbol = sym => j <= k]]])

\* What the servers of the three channels send to the dashboard: a tick, a
\* position snapshot, an order and a fill, risk metrics and an alert, each a
\* payload of the shape its store takes.
BootEnvelope(kind, stream, payload) ==
  JsonText(With(WireEnvelope(kind, stream, 0), "payload", payload))
BootInputs ==
  [c \in Streams |->
     CASE c = "market" ->
            {BootEnvelope("tick", c, [symbol |-> "BTC", price |-> 1])}
       [] c = "portfolio" ->
            {BootEnvelope("position_snapshot", c, << [symbol |-> "BTC", qty |-> 1] >>),
             BootEnvelope("order", c, [id |-> "o1", status |-> "OPEN"]),
             BootEnvelope("fill", c, [id |-> "f1", orderId |-> "o1"])}
       [] c = "system" ->
            {BootEnvelope("risk_metrics", c, "other"),
             BootEnvelope("alert", c,
                          [id |-> "a1", severity |-> "WARN",
                           acknowledged |-> FALSE])}]

\* The five stores as one value, and the three handlers bootstrapStreams
\* subscribes (named 1, 2, 3): what each does to the stores with an envelope.
Stores ==
  [domain |-> domain, alerts |-> alerts, orders |-> orders, risk |-> risk]
BootHandler(h, env, st) ==
  CASE h = 1 ->
         [st EXCEPT !.domain = upsertTick(st.domain, toMarketTick(env).value)]
    [] h = 2 ->
         IF env.kind = "position_snapshot"
         THEN [st EXCEPT !.domain =
                 setPositions(st.domain, toPositionSnapshot(env).value)]
         ELSE IF "orderId" \in DOMAIN toOrderEvent(env).value
         THEN [st EXCEPT !.orders = addFill(st.orders, toOrderEvent(env).value)]
         ELSE [st EXCEPT !.orders = upsertOrder(st.orders, toOrderEvent(env).value)]
    [] h = 3 ->
         IF env.kind = "risk_metrics"
         THEN [st EXCEPT !.risk = setMetrics(st.risk, toRiskMetrics(env).value)]
         ELSE [st EXCEPT !.alerts = addAlert(st.alerts, toAlert(env).value)]

RECURSIVE RunHandlers(_, _)
RunHandlers(cs, st) ==
  IF cs = << >> THEN st
  ELSE RunHandlers(Tail(cs), BootHandler(Head(cs).handler, Head(cs).env, st))

\* The handler lists of a manager that bootstrapStreams has set up.
BootHandlers == [market |-> <<1>>, portfolio |-> <<2>>, system |-> <<3>>]

\* bootstrapStreams(): a new manager, the three subscribe calls and the
\* three connect calls.  The effect of App runs it at mount and runs its
\* cleanup before running it again.
Bootstrap ==
  /\ sockets = EmptyMap
  /\ Len(ws) + 3 <= 3 * MaxRuns
  /\ handlers' = BootHandlers
  /\ subs' = << [stream |-> "market", handler |-> 1],
                [stream |-> "portfolio", handler |-> 2],
                [stream |-> "system", handler |-> 3] >>
  /\ live' = << TRUE, TRUE, TRUE >>
  /\ lastSeq' = EmptyMap
  /\ accepted' = EmptyMap
  /\ gapHandler' = NoObserver
  /\ ws' = ws \o << [stream |-> "market", readyState |-> "CONNECTING"],
                     [stream |-> "portfolio", readyState |-> "CONNECTING"],
                     [stream |-> "system", readyState |-> "CONNECTING"] >>
  /\ sockets' = [market |-> Len(ws) + 1, portfolio |-> Len(ws) + 2,
                 system |-> Len(ws) + 3]
  /\ calls' = << >>
  /\ gaps' = << >>
  /\ lastMsg' = NoMessage

\* The socket belongs to the manager of the latest bootstrapStreams run.
Current(w, map) == \E c \in DOMAIN map : map[c] = w

\* The onmessage callback of a socket that a manager of an earlier run
\* created: that manager has the handler lists of bootstrapStreams and no
\* gap observer; its sequences are not followed.
OnMessageEarlier(w, raw) ==
  /\ w \in DOMAIN ws
  /\ ws[w].readyState = "OPEN"
  /\ calls' = handleMessage(ws[w].stream, raw, EmptyMap, BootHandlers, NoObserver).calls
  /\ gaps' = << >>
  /\ lastMsg' = [outcome |-> handleMessage(ws[w].stream, raw, EmptyMap,
                                           BootHandlers, NoObserver).outcome,
                 stream |-> ws[w].stream, socket |-> w, raw |-> raw,
                 prev |-> NoSeq, stale |-> FALSE, via |-> NoSocket,
                 before |-> Snapshot]
  /\ UNCHANGED <<sockets, handlers, lastSeq, gapHandler, ws, subs, accepted, live>>

\* A message on any socket, and what the handlers invoked do to the stores.
BootMessage(w, raw) ==
  /\ IF Current(w, sockets) THEN OnMessage(w, raw) ELSE OnMessageEarlier(w, raw)
  /\ \E st \in {RunHandlers(calls', Stores)} :
        /\ domain' = st.domain
        /\ alerts' = st.alerts
        /\ orders' = st.orders
        /\ risk' = st.risk

NoBoot == UNCHANGED <<domain, alerts, orders, risk>>
NoRest == NoLife /\ NoOrder /\ NoDecode /\ NoSession /\ NoEvents /\ NoPanel

NextBoot ==
  \/ Bootstrap /\ NoBoot /\ NoRest
  \/ CloseAll /\ sockets # EmptyMap /\ NoBoot /\ NoRest
  \/ \E w \in DOMAIN ws : SocketOpen(w) /\ NoBoot /\ NoRest
  \/ \E w \in DOMAIN ws : SocketClosed(w) /\ NoBoot /\ NoRest
  \/ \E w \in DOMAIN ws : \E raw \in BootInputs[ws[w].stream] :
        BootMessage(w, raw) /\ NoRest
SpecBoot == Init /\ [][NextBoot]_vars

\* ---- properties -------------------------------------------------------
\* The last step was an inbound message.
Processed == lastMsg.outcome # "none"
\* ... whose text was not JSON.
Malformed == Processed /\ Parsed(lastMsg.raw).threw
\* ... which decoded.
Decoded == Processed /\ ~Parsed(lastMsg.raw).threw
\* ... and passed the envelope validator.
Validated == Decoded /\ envelopeSchema(Parsed(lastMsg.raw).value)
\* The envelope of the last message, and the channel it was processed on.
Env == EnvelopeOf(Parsed(lastMsg.raw).value)
Chan == lastMsg.stream
\* The gap signal (channel, expected, got) to the registered observer.
GapSignal(c, e, g) ==
  [observer |-> gapHandler, stream |-> c, expected |-> e, got |-> g]
\* The handlers subscribed to c and not disposed since, in subscription order.
LiveHandlers(c) ==
  LET idx == SelectSeq([i \in 1..Len(subs) |-> i],
                       LAMBDA i : subs[i].stream = c /\ live[i])
  IN [k \in 1..Len(idx) |-> subs[idx[k]].handler]
\* One invocation with the last envelope for each handler of list, in order.
OncEach(list) == [k \in 1..Len(list) |-> [handler |-> list[k], env |-> Env]]

\* C1: when two consecutive validated messages on a channel carry s then s'
\* with s' # s+1, the registered gap observer is invoked exactly once, with
\* (channel, s+1, s'), and the stored last-accepted sequence is s'.
C1_GapOnMismatch ==
  (/\ Validated
   /\ lastMsg.prev # NoSeq
   /\ Env.sequence # lastMsg.prev + 1
   /\ gapHandler # NoObserver)
    => /\ gaps = << GapSignal(Chan, lastMsg.prev + 1, Env.sequence) >>
       /\ MapHas(lastSeq, Chan)
       /\ lastSeq[Chan] = Env.sequence

\* 0 then 2 on a channel: one signal (channel, 1, 2).
C1_Witness ==
  /\ Validated
  /\ lastMsg.prev = 0
  /\ Env.sequence = 2
  /\ gaps = << GapSignal(Chan, 1, 2) >>
  /\ lastSeq[Chan] = 2

C3_InOrderNoGap ==
  (Validated /\ (lastMsg.prev = NoSeq \/ Env.sequence = lastMsg.prev + 1))
    => gaps = << >>

\* The third message of a run 0, 1, 2 while another channel stands elsewhere.
C3_Witness ==
  /\ Validated
  /\ lastMsg.prev = 1
  /\ Env.sequence = 2
  /\ gapHandler # NoObserver
  /\ gaps = << >>
  /\ \E d \in DOMAIN accepted : d # Chan /\ accepted[d] = 0

\* The ways the claim lists for a decoded value to fail envelope validation.
Defective(v) ==
  \/ v.t # "object"
  \/ "stream" \notin DOMAIN v.f
  \/ v.f["stream"] \notin {Str(c) : c \in Streams}
  \/ "sequence" \notin DOMAIN v.f
  \/ v.f["sequence"].t # "number"
  \/ v.f["sequence"].half % 2 # 0
  \/ v.f["sequence"].half < 0
  \/ "kind" \notin DOMAIN v.f
  \/ v.f["kind"].t # "string"

\* C4: a message that decodes but fails envelope validation is dropped: no
\* handler is invoked, no gap signal fires, the sequence map is as before;
\* and a valid message is compared with the sequence of the latest valid
\* message before it, invalid ones in between not counting.
C4_InvalidDropped ==
  /\ (Decoded /\ Defective(Parsed(lastMsg.raw).value))
       => /\ lastMsg.outcome = "dropped"
          /\ calls = << >>
          /\ gaps = << >>
          /\ lastSeq = lastMsg.before.lastSeq
  /\ (Validated /\ gaps # << >>)
       => /\ lastMsg.prev # NoSeq
          /\ gaps = << GapSignal(Chan, lastMsg.prev + 1, Env.sequence) >>

\* An envelope without its stream field arrives after sequence 1, with a
\* handler subscribed and an observer registered.
C4_Witness ==
  /\ Decoded
  /\ Parsed(lastMsg.raw).value = Without(BaseEnvelope, "stream")
  /\ lastMsg.outcome = "dropped"
  /\ MapHas(lastSeq, Chan)
  /\ lastSeq[Chan] = 1
  /\ HandlersOf(handlers, Chan) # << >>
  /\ gapHandler # NoObserver

\* C5: for every validated envelope processed on a channel, every handler
\* currently subscribed to the channel is invoked with that envelope exactly
\* once, in subscription order.
C5_EveryHandlerOnceInOrder ==
  Validated => calls = OncEach(LiveHandlers(Chan))

\* Three different handlers receive one envelope.
C5_Witness ==
  /\ Validated
  /\ Len(calls) = 3
  /\ calls[1].handler # calls[2].handler
  /\ calls[2].handler # calls[3].handler
  /\ calls[1].handler # calls[3].handler

\* C6: once the disposer of subscribe(channel, h) has been invoked, h is not
\* invoked for later envelopes of the channel (until it is subscribed again),
\* and the channel's other handlers stay subscribed in their order.
C6_DisposedHandlerGone ==
  /\ \A c \in Channels : HandlersOf(handlers, c) = LiveHandlers(c)
  /\ Validated
       => \A k \in DOMAIN calls :
            \E i \in DOMAIN subs :
              /\ subs[i] = [stream |-> Chan, handler |-> calls[k].handler]
              /\ live[i]

\* Three handlers on a channel, the second one disposed: the first and the
\* third receive the next envelope, in that order.
C6_Witness ==
  /\ Validated
  /\ Len(subs) = 3
  /\ \A i \in 1..3 : subs[i].stream = Chan
  /\ live = << TRUE, FALSE, TRUE >>
  /\ calls = OncEach(<< subs[1].handler, subs[3].handler >>)
  /\ subs[2].handler \notin {subs[1].handler, subs[3].handler}

\* C7: a raw message whose text is not JSON ends as a silent drop;
\* handleMessage does not throw.
C7_MalformedIsDropped ==
  Malformed => lastMsg.outcome = "dropped"

\* C8: a malformed raw message leaves the manager's state (connections,
\* handler lists, sequences, gap observer) as it was and makes no callback;
\* the sequence map holds exactly the sequences of the latest validated
\* messages, so later messages are processed as if it had never arrived.
C8_MalformedLeavesStateAlone ==
  /\ Malformed
       => /\ Snapshot = lastMsg.before
          /\ calls = << >>
          /\ gaps = << >>
  /\ lastSeq = accepted

\* Text that is not JSON arrives when both channels have a sequence and an
\* observer is registered.
C8_Witness ==
  /\ Malformed
  /\ DOMAIN lastSeq = Channels
  /\ gapHandler # NoObserver
  /\ \E c \in Channels : HandlersOf(handlers, c) # << >>

\* C9: an envelope that triggers a gap signal is still dispatched to every
\* handler subscribed to the channel.
C9_GapStillDispatches ==
  (Validated /\ gaps # << >>)
    => /\ Len(calls) = Len(HandlersOf(handlers, Chan))
       /\ \A k \in DOMAIN calls :
            /\ calls[k].handler = HandlersOf(handlers, Chan)[k]
            /\ calls[k].env = Env

\* A gap signal and two handler invocations for the same envelope.
C9_Witness ==
  /\ Validated
  /\ Len(gaps) = 1
  /\ Len(calls) >= 2

\* C10: a validated message whose sequence is at most the channel's
\* last-accepted one is not rejected: it produces the gap signal
\* (channel, last+1, received), the received value overwrites the stored one,
\* and the envelope is dispatched.
C10_StaleSequenceAccepted ==
  (Validated /\ lastMsg.prev # NoSeq /\ Env.sequence <= lastMsg.prev)
    => /\ lastMsg.outcome = "dispatched"
       /\ gapHandler # NoObserver
            => gaps = << GapSignal(Chan, lastMsg.prev + 1, Env.sequence) >>
       /\ MapHas(lastSeq, Chan)
       /\ lastSeq[Chan] = Env.sequence
       /\ calls = OncEach(HandlersOf(handlers, Chan))

\* Sequence 0 after sequence 2: signal (channel, 3, 0), 0 stored, one handler
\* invoked.
C10_Witness ==
  /\ Validated
  /\ lastMsg.prev = 2
  /\ Env.sequence = 0
  /\ gaps = << GapSignal(Chan, 3, 0) >>
  /\ lastSeq[Chan] = 0
  /\ Len(calls) = 1

\* The last message changed nothing and called nobody.
NotProcessed ==
  /\ calls = << >>
  /\ gaps = << >>
  /\ Processed => lastSeq = lastMsg.before.lastSeq

\* C11: after closeAll, and until connect is called again (the connection map
\* is empty exactly then, once a connection was made), no inbound message on
\* any connection the manager ever opened is processed: no handler is
\* invoked, no sequence changes, no gap signal fires.
C11_NothingAfterCloseAll ==
  (sockets = EmptyMap) => NotProcessed

\* The last message arrived on the connection the map holds for its channel;
\* closeAll empties the map, so that connection was made after the last
\* closeAll.
OnCurrentConnection ==
  /\ Processed
  /\ MapHas(sockets, Chan)
  /\ sockets[Chan] = lastMsg.socket

\* C12: closeAll resets sequence tracking: the first validated message that
\* a channel receives on a connection made after closeAll fires no gap
\* signal whatever its sequence, although the channel had a last-accepted
\* sequence before closeAll.
C12_CloseAllResetsSequences ==
  (Validated /\ OnCurrentConnection /\ lastMsg.stale) => gaps = << >>

\* C13: closeAll clears subscriptions: a handler invoked for an envelope
\* that arrives on a connection made after closeAll was subscribed to the
\* channel after that closeAll.
C13_CloseAllClearsSubscriptions ==
  (Validated /\ OnCurrentConnection)
    => \A k \in DOMAIN calls :
         \E i \in DOMAIN subs :
           /\ i > cleared
           /\ subs[i] = [stream |-> Chan, handler |-> calls[k].handler]

\* C14: at most one connection per channel feeds the pipeline: once connect
\* has replaced a channel's connection, a message arriving on the earlier
\* connection is not processed (no handler, no sequence change, no gap
\* signal), so two connections never interleave into one channel's tracker.
C14_SupersededConnectionIsSilent ==
  (Processed /\ MapHas(sockets, Chan) /\ sockets[Chan] # lastMsg.socket)
    => NotProcessed

\* The gap signals the tracker owes for sequence s after sequence p.
GapsAfter(p, s) ==
  IF s # p + 1 /\ gapHandler # NoObserver
  THEN << GapSignal(Chan, p + 1, s) >> ELSE << >>

\* C15: reconnecting a channel with connect, no closeAll in between, changes
\* neither its last-accepted sequence nor its subscriber list: a validated
\* message arriving on a connection made later than the one that delivered
\* the channel's previous validated message is compared with that previous
\* sequence + 1, becomes the last-accepted one, and reaches every handler
\* subscribed and not disposed, in subscription order.
C15_ReconnectKeepsChannelState ==
  (/\ Validated
   /\ lastMsg.via # NoSocket
   /\ lastMsg.via < lastMsg.socket
   /\ ~lastMsg.stale)
    => /\ gaps = GapsAfter(lastMsg.prev, Env.sequence)
       /\ MapHas(lastSeq, Chan)
       /\ lastSeq[Chan] = Env.sequence
       /\ calls = OncEach(LiveHandlers(Chan))

\* Sequence 1 arrives on the first connection; the channel is connected
\* again and sequence 0 is the first message of the new connection: the
\* signal is (channel, 2, 0) and the handler subscribed before is invoked.
C15_Witness ==
  /\ Validated
  /\ lastMsg.via = 1
  /\ lastMsg.socket = 2
  /\ OnCurrentConnection
  /\ ~lastMsg.stale
  /\ cleared = 0
  /\ lastMsg.prev = 1
  /\ Env.sequence = 0
  /\ gaps = << GapSignal(Chan, 2, 0) >>
  /\ Len(calls) = 1

\* C16: at most one gap observer is active: every gap signal goes to the
\* observer of the latest onGapDetected call and to no other, a gap invokes
\* it exactly once, and no message causes more than one observer invocation.
C16_LastObserverOnly ==
  /\ Len(gaps) <= 1
  /\ \A k \in DOMAIN gaps : gaps[k].observer = registered
  /\ (/\ Validated
      /\ lastMsg.prev # NoSeq
      /\ Env.sequence # lastMsg.prev + 1
      /\ registered # NoObserver)
       => gaps = << [observer |-> registered, stream |-> Chan,
                     expected |-> lastMsg.prev + 1, got |-> Env.sequence] >>

\* onGapDetected(o1), then onGapDetected(o2), then a gap: one invocation, of
\* o2.
C16_Witness ==
  /\ registered = "o2"
  /\ Validated
  /\ Len(gaps) = 1
  /\ gaps[1].observer = "o2"

\* C17: a dispatch iterates a stable snapshot: the handlers invoked for an
\* envelope are exactly those registered for the channel when the dispatch
\* started, in that order, whatever subscribe or disposer calls the handlers
\* make while they are invoked; and the channel's list then holds every such
\* call, so that the change takes effect from the next dispatch.
C17_DispatchIteratesSnapshot ==
  /\ Validated => calls = OncEach(HandlersOf(lastMsg.before.handlers, Chan))
  /\ \A c \in Channels : HandlersOf(handlers, c) = LiveHandlers(c)

\* Handlers 1 and 2 are registered; during the dispatch handler 3 is
\* subscribed and the registration of handler 2 is not touched: 1 and 2 are
\* invoked, 3 is not, and the list holds 1, 2, 3 afterwards.
C17_Witness ==
  /\ Validated
  /\ HandlersOf(lastMsg.before.handlers, Chan) = << 1, 2 >>
  /\ calls = OncEach(<< 1, 2 >>)
  /\ HandlersOf(handlers, Chan) = << 1, 2, 3 >>

\* C18: invoking a disposer a second time is a no-op: it leaves the handler
\* lists, membership and order, exactly as they were, whatever was subscribed
\* between the two invocations.
C18_SecondDisposeIsNoOp ==
  [][\A i \in 1..MaxSubs :
       (i \in invoked /\ Dispose(i) /\ invoked' = invoked \cup {i})
         => handlers' = handlers]_vars

\* The state of connection w in the list of sockets: Idle until connect has
\* created it.
StateOf(list, w) == IF w \in DOMAIN list THEN list[w].readyState ELSE "IDLE"

\* Every connection whose state changes in the step makes one of the moves.
MovesWithin(moves) ==
  \A w \in 1..MaxSockets :
    StateOf(ws', w) # StateOf(ws, w) => << StateOf(ws, w), StateOf(ws', w) >> \in moves

\* A step that changes the sequences or calls a handler or the observer is a
\* message on a connection that is Open.
MessagesOnlyWhenOpen ==
  (lastSeq' # lastSeq \/ calls' # << >> \/ gaps' # << >>)
    => /\ lastMsg'.outcome # "none"
       /\ StateOf(ws, lastMsg'.socket) = "OPEN"

\* C19, as claimed: each connection follows only the transitions
\* Idle -> Connecting -> Open -> Closed, and an inbound message changes the
\* manager's state or reaches handlers only while its connection is Open.
C19_OnlyTheChain ==
  [][/\ MovesWithin({<< "IDLE", "CONNECTING" >>, << "CONNECTING", "OPEN" >>,
                     << "OPEN", "CLOSED" >>})
     /\ MessagesOnlyWhenOpen]_vars

\* C19, amended: each connection follows only the transitions
\* Idle -> Connecting -> Open -> Closed and Connecting -> Closed (a
\* connection that fails, or is closed by closeAll, before it opens), and an
\* inbound message changes the manager's state or reaches handlers only
\* while its connection is Open.
C19_ChainOrClosedBeforeOpen ==
  [][/\ MovesWithin({<< "IDLE", "CONNECTING" >>, << "CONNECTING", "OPEN" >>,
                     << "OPEN", "CLOSED" >>, << "CONNECTING", "CLOSED" >>})
     /\ MessagesOnlyWhenOpen]_vars

\* A message reaches a handler on the Open second connection of a channel
\* whose first connection is Closed.
C19_Witness ==
  /\ Validated
  /\ calls # << >>
  /\ lastMsg.socket = 2
  /\ StateOf(ws, 2) = "OPEN"
  /\ StateOf(ws, 1) = "CLOSED"

\* The connection the map holds for channel c is Closed; closeAll removes the
\* connections it closes from the map, so this one was closed by the
\* transport.
ClosedByTransport(c) ==
  /\ MapHas(sockets, c)
  /\ StateOf(ws, sockets[c]) = "CLOSED"

\* C20: no automatic reconnection: a connection is created for a channel
\* only by a connect call for that channel; and while the connection of a
\* channel stands Closed by the transport, every step other than such a call
\* leaves the map, if it still holds the channel, on the same Closed
\* connection.
C20_NoAutomaticReconnect ==
  [][\A c \in Channels :
       /\ (\E w \in DOMAIN ws' \ DOMAIN ws : ws'[w].stream = c)
            => Connect(c, MaxSockets)
       /\ (ClosedByTransport(c) /\ ~Connect(c, MaxSockets) /\ MapHas(sockets', c))
            => /\ sockets'[c] = sockets[c]
               /\ StateOf(ws', sockets'[c]) = "CLOSED"]_vars

\* The channel's second connection, made by the caller after the first was
\* lost, is Closed by the transport too and nothing has replaced it.
C20_Witness ==
  /\ Len(ws) = 2
  /\ StateOf(ws, 1) = "CLOSED"
  /\ ws[1].stream = ws[2].stream
  /\ ClosedByTransport(ws[2].stream)
  /\ sockets[ws[2].stream] = 2
  /\ MapHas(lastSeq, ws[2].stream)

\* The three checks the claim names, on a decoded value.
KindIsString(v) ==
  v.t = "object" /\ "kind" \in DOMAIN v.f /\ v.f["kind"].t = "string"
ChannelIsKnown(v) ==
  v.t = "object" /\ "stream" \in DOMAIN v.f
    /\ v.f["stream"] \in {Str("market"), Str("portfolio"), Str("system")}
SequenceIsNatural(v) ==
  v.t = "object" /\ "sequence" \in DOMAIN v.f /\ v.f["sequence"].t = "number"
    /\ \E n \in 0..(MaxSeq + 1) : v.f["sequence"].half = n + n

\* C21: the validator accepts a decoded value only if kind is a string, the
\* channel field is one of market, portfolio, system and sequence is an
\* integer >= 0; a value failing any one of the checks is rejected whole, and
\* a rejection leaves the manager's state as it was and calls nobody.
C21_AcceptsOnlyWellFormed ==
  Decoded
    => /\ lastMsg.outcome = "dispatched"
            => /\ KindIsString(Parsed(lastMsg.raw).value)
               /\ ChannelIsKnown(Parsed(lastMsg.raw).value)
               /\ SequenceIsNatural(Parsed(lastMsg.raw).value)
       /\ (\/ ~KindIsString(Parsed(lastMsg.raw).value)
           \/ ~ChannelIsKnown(Parsed(lastMsg.raw).value)
           \/ ~SequenceIsNatural(Parsed(lastMsg.raw).value))
            => /\ lastMsg.outcome = "dropped"
               /\ Snapshot = lastMsg.before
               /\ calls = << >>
               /\ gaps = << >>

\* An envelope whose only defect is the sequence 1.5 is rejected while its
\* channel has a sequence and a handler.
C21_Witness ==
  /\ Decoded
  /\ Parsed(lastMsg.raw).value = With(BaseEnvelope, "sequence", Num(3))
  /\ lastMsg.outcome = "dropped"
  /\ MapHas(lastSeq, Chan)
  /\ HandlersOf(handlers, Chan) # << >>

\* C22: an envelope that has a valid kind, channel and sequence but no payload
\* field is rejected and dropped.
C22_MissingPayloadDropped ==
  (/\ Decoded
   /\ KindIsString(Parsed(lastMsg.raw).value)
   /\ ChannelIsKnown(Parsed(lastMsg.raw).value)
   /\ SequenceIsNatural(Parsed(lastMsg.raw).value)
   /\ "payload" \notin DOMAIN Parsed(lastMsg.raw).value.f)
    => lastMsg.outcome = "dropped"

\* C23: within one channel the validated envelopes reach each handler in
\* exactly the order in which the transport delivered them: every invocation
\* carries the envelope that arrived at its position, the positions never go
\* backwards, and a subscribed handler has been invoked with every envelope
\* that arrived since it subscribed, whatever the sequence numbers.
C23_DeliveredInTransportOrder ==
  \A h \in HandlerIds :
    /\ \A j \in DOMAIN delivered[h] :
          /\ delivered[h][j].at \in DOMAIN arrived
          /\ delivered[h][j].env = arrived[delivered[h][j].at]
    /\ \A j, k \in DOMAIN delivered[h] :
          j < k => delivered[h][j].at <= delivered[h][k].at
    /\ (\E k \in DOMAIN HandlersOf(handlers, "market") :
            HandlersOf(handlers, "market")[k] = h)
          => \A n \in (since[h] + 1)..Len(arrived) :
                \E j \in DOMAIN delivered[h] : delivered[h][j].at = n

\* A handler has received two envelopes whose sequence numbers go backwards,
\* in the order they arrived.
C23_Witness ==
  /\ Len(arrived) >= 2
  /\ arrived[1].sequence > arrived[2].sequence
  /\ Len(delivered[1]) >= 2
  /\ delivered[1][1].at = 1
  /\ delivered[1][2].at = 2

\* C24: channels are independent: a message on the connection of channel A
\* changes neither the last-accepted sequence nor the handler list of any
\* other channel B, invokes no handler that is subscribed only to B, and
\* emits no gap signal naming B.
C24_OtherChannelsUntouched ==
  Processed
    => \A b \in Streams \ {Chan} :
          /\ MapHas(lastSeq, b) = MapHas(lastMsg.before.lastSeq, b)
          /\ MapHas(lastSeq, b) => lastSeq[b] = lastMsg.before.lastSeq[b]
          /\ MapHas(handlers, b) = MapHas(lastMsg.before.handlers, b)
          /\ HandlersOf(handlers, b) = HandlersOf(lastMsg.before.handlers, b)
          /\ \A k \in DOMAIN calls :
                \E j \in DOMAIN HandlersOf(lastMsg.before.handlers, Chan) :
                   HandlersOf(lastMsg.before.handlers, Chan)[j] = calls[k].handler
          /\ \A k \in DOMAIN gaps : gaps[k].stream # b

\* A validated message on one channel opens a gap there while another
\* channel has a recorded sequence and a handler.
C24_Witness ==
  /\ Validated
  /\ gaps # << >>
  /\ \E b \in Channels \ {Chan} :
        /\ MapHas(lastSeq, b)
        /\ HandlersOf(handlers, b) # << >>

\* C25: every stream decoder returns exactly the payload of the envelope it is
\* given, for every validated envelope whatever its kind; it never fails and
\* changes no state.
C25_DecoderReturnsPayload ==
  decoded.decoder # "none"
    => /\ ~decoded.result.threw
       /\ decoded.result.value =
            (IF "payload" \in DOMAIN Parsed(decoded.raw).value.f
             THEN Parsed(decoded.raw).value.f["payload"] ELSE Undefined)
       /\ decoded.after = decoded.before

\* The alert decoder has been applied to an envelope of kind "tick" that
\* carries a payload of its own.
C25_Witness ==
  /\ decoded.decoder = "toAlert"
  /\ decoded.env.kind = "tick"
  /\ Processed
  /\ decoded.env = Env
  /\ decoded.result.value = Obj([id |-> Str("a1")])

\* The field each setter of the session store is for.
FieldOf(setter) ==
  CASE setter = "setMode" -> "mode"
    [] setter = "setEngineState" -> "engineState"
    [] setter = "setRole" -> "role"
    [] setter = "setKillSwitch" -> "killSwitchActive"
    [] setter = "setEquityWatermark" -> "equityWatermark"

\* C26: in the session store, after setKillSwitch(v) the field
\* killSwitchActive equals v and mode, engineState, role, sessionStartTs and
\* equityWatermark are unchanged; the same holds for each other setter with
\* respect to its own field.
C26_SetterChangesOwnFieldOnly ==
  lastSet.setter # "none"
    => /\ DOMAIN session = DOMAIN lastSet.before
       /\ session[FieldOf(lastSet.setter)] = lastSet.arg
       /\ \A f \in DOMAIN session \ {FieldOf(lastSet.setter)} :
             session[f] = lastSet.before[f]

\* The kill switch has been activated in a session whose other fields had
\* all been moved away from their initial values.
C26_Witness ==
  /\ lastSet.setter = "setKillSwitch"
  /\ lastSet.arg = TRUE
  /\ ~lastSet.before.killSwitchActive
  /\ session.killSwitchActive
  /\ session.mode = "LIVE"
  /\ session.engineState = "RUNNING"
  /\ session.role = "ADMIN"
  /\ session.equityWatermark = MaxWatermark

\* Every entry of the list before is in the list after, unmodified and in
\* the same order, after whatever was added in front.
Kept(before, after) ==
  /\ Len(after) >= Len(before)
  /\ SubSeq(after, Len(after) - Len(before) + 1, Len(after)) = before

\* C27: the historical audit state (order history, alert history, risk breach
\* history, fill tape) is append-only: no store operation removes or modifies
\* an entry that was added.
C27_AuditIsAppendOnly ==
  [][/\ Kept(alerts.alerts, alerts'.alerts)
     /\ Kept(orders.history, orders'.history)
     /\ Kept(orders.fills, orders'.fills)
     /\ Kept(risk.breaches, risk'.breaches)]_vars

\* The place of an effect in the order the claim gives.
Rank(ev) == CASE ev.e = "gap" -> 1 [] ev.e = "record" -> 2 [] ev.e = "call" -> 3
EventsOf(kind) == SelectSeq(events, LAMBDA ev : ev.e = kind)

\* C28: for one validated message the gap observer is called first, then the
\* sequence is recorded, then the handlers are invoked: the effects are the
\* gap signals, one recording of the envelope's sequence and the handler
\* calls of the message, in that order, so that every handler call comes
\* after the gap signal of its envelope.
C28_GapThenRecordThenHandlers ==
  Validated
    => /\ \A i, j \in DOMAIN events : i < j => Rank(events[i]) <= Rank(events[j])
       /\ [k \in DOMAIN EventsOf("gap") |-> EventsOf("gap")[k].call] = gaps
       /\ [k \in DOMAIN EventsOf("call") |-> EventsOf("call")[k].call] = calls
       /\ EventsOf("record") =
            << [e |-> "record", stream |-> Chan, sequence |-> Env.sequence] >>
       /\ lastSeq[Chan] = Env.sequence
       /\ \A j \in DOMAIN events :
             (events[j].e = "call" /\ gaps # << >>)
               => \E i \in 1..(j - 1) :
                     /\ events[i].e = "gap"
                     /\ events[i].call.got = events[j].call.env.sequence

\* A validated message opened a gap and was dispatched to two handlers.
C28_Witness ==
  /\ Validated
  /\ Len(gaps) = 1
  /\ Len(calls) = 2
  /\ Len(events) = 4

\* C29: no envelope is misrouted: every envelope delivered to a handler
\* subscribed to channel c carries the channel field c, and the sequence of a
\* message is compared with and recorded against the channel named in the
\* envelope itself, also when the connection that delivered it was opened
\* for another channel.
C29_NoEnvelopeMisrouted ==
  Validated
    => /\ \A k \in DOMAIN calls :
             \A i \in DOMAIN subs :
                (subs[i].handler = calls[k].handler /\ live[i])
                  => calls[k].env.stream = subs[i].stream
       /\ MapHas(lastSeq, Env.stream)
       /\ lastSeq[Env.stream] = Env.sequence
       /\ \A b \in DOMAIN lastSeq \ {Env.stream} :
             /\ MapHas(lastMsg.before.lastSeq, b)
             /\ lastSeq[b] = lastMsg.before.lastSeq[b]
       /\ \A k \in DOMAIN gaps : gaps[k].stream = Env.stream

\* C30: the state of a channel is created by whichever of subscribe or
\* connect comes first: a handler subscribed before any connect for its
\* channel, and not unsubscribed, has received every validated envelope
\* processed after the later connect; and on a channel with no subscribers a
\* validated message still has its sequence recorded and its gap reported.
C30_EitherOrderCreatesChannel ==
  /\ \A i \in early :
        live[i]
          => \A n \in DOMAIN arrived :
                \E j \in DOMAIN delivered[subs[i].handler] :
                   /\ delivered[subs[i].handler][j].at = n
                   /\ delivered[subs[i].handler][j].env = arrived[n]
  /\ (Validated /\ HandlersOf(lastMsg.before.handlers, Chan) = << >>)
        => /\ lastSeq[Chan] = Env.sequence
           /\ gaps = IF /\ lastMsg.prev # NoSeq
                        /\ Env.sequence # lastMsg.prev + 1
                        /\ gapHandler # NoObserver
                     THEN << GapSignal(Chan, lastMsg.prev + 1, Env.sequence) >>
                     ELSE << >>

\* A handler subscribed before the connect of its channel has received the
\* two envelopes that arrived, the second of them opening a gap.
C30_Witness ==
  /\ 1 \in early
  /\ live[1]
  /\ Len(arrived) = 2
  /\ Len(delivered[subs[1].handler]) = 2
  /\ Validated
  /\ gaps # << >>

\* On a channel that never had a subscriber a validated message opened a gap.
C30_WitnessNoSubscriber ==
  /\ subs = << >>
  /\ Validated
  /\ gaps # << >>
  /\ lastSeq[Chan] = Env.sequence

\* C31: a handler that throws while being invoked during a dispatch does not
\* prevent the handlers subscribed after it from receiving the same envelope
\* exactly once: whichever handlers throw, a validated message whose gap
\* observer did not throw invokes every handler of its channel once, in order.
C31_ThrowingHandlerIsolated ==
  (Validated /\ ~(lastMsg.observerThrows /\ gaps # << >>))
    => calls = OncEach(HandlersOf(lastMsg.before.handlers, Chan))

\* C32: a gap observer that throws does not corrupt sequence tracking: the
\* sequence of the triggering message is still recorded as last-accepted and
\* the envelope is still dispatched to the handlers that do not throw.
C32_ThrowingObserverHarmless ==
  (Validated /\ lastMsg.observerThrows /\ gaps # << >> /\ lastMsg.throwers = {})
    => /\ MapHas(lastSeq, Chan)
       /\ lastSeq[Chan] = Env.sequence
       /\ calls = OncEach(HandlersOf(lastMsg.before.handlers, Chan))

\* C33: each subscribe call creates its own registration: a handler function
\* subscribed several times to one channel is in the channel's list, and so
\* invoked per envelope, once for each of its subscribe calls whose disposer
\* has not been invoked; invoking the disposer of one registration leaves
\* the others active.
C33_OneRegistrationPerSubscribe ==
  /\ \A i \in DOMAIN subs :
        Len(SelectSeq(HandlersOf(handlers, subs[i].stream),
                      LAMBDA h : h = subs[i].handler))
          = Cardinality({j \in DOMAIN subs \ invoked : subs[j] = subs[i]})
  /\ Validated
        => \A i \in DOMAIN subs :
              subs[i].stream = Chan
                => Len(SelectSeq(calls, LAMBDA c : c.handler = subs[i].handler))
                     = Cardinality({j \in DOMAIN subs \ invoked : subs[j] = subs[i]})

\* The last message did not carry the sequence following that of the
\* channel's previous validated message.
Mismatch ==
  Validated /\ lastMsg.prev # NoSeq /\ Env.sequence # lastMsg.prev + 1

\* C34: when no gap observer is registered a sequence mismatch is absorbed:
\* nothing is signalled, the received sequence still becomes last-accepted
\* and the envelope is still dispatched.  An observer registered afterwards
\* is not notified of that mismatch: registering signals nothing, and every
\* later signal is about the message being processed, relative to the
\* sequence of the channel's previous validated message.
C34_UnobservedGapAbsorbed ==
  /\ (Mismatch /\ lastMsg.before.gapHandler = NoObserver)
        => /\ gaps = << >>
           /\ lastSeq[Chan] = Env.sequence
           /\ calls = OncEach(HandlersOf(lastMsg.before.handlers, Chan))
  /\ ~Processed => gaps = << >>
  /\ (Processed /\ gaps # << >>)
        => /\ Mismatch
           /\ gaps = << GapSignal(Chan, lastMsg.prev + 1, Env.sequence) >>

\* A message that goes back in sequence arrives while no observer is
\* registered and the channel has a handler: nothing is signalled, the
\* sequence is recorded and the handler is invoked.
C34_Witness ==
  /\ Mismatch
  /\ lastMsg.before.gapHandler = NoObserver
  /\ Env.sequence < lastMsg.prev
  /\ lastSeq[Chan] = Env.sequence
  /\ gaps = << >>
  /\ calls # << >>

\* C35: the kill-switch action is gated by role: a call of
\* activateKillSwitch while the session role is READ_ONLY sends no request to
\* the backend, and a call under any other role sends exactly one
\* killSwitch(true) request.
C35_KillSwitchGatedByRole ==
  panel.last.role # "none"
    => IF panel.last.role = "READ_ONLY"
       THEN panel.requests = panel.last.before
       ELSE panel.requests =
              Append(panel.last.before,
                     [method |-> "POST", path |-> "/session/kill-switch",
                      active |-> TRUE])

\* The role was moved from READ_ONLY to PAPER_TRADER and the call made then
\* has sent the first request.
C35_Witness ==
  /\ panel.last.role = "PAPER_TRADER"
  /\ Len(panel.requests) = 1
  /\ panel.last.before = << >>
  /\ lastSet.setter = "setRole"
  /\ lastSet.before.role = "READ_ONLY"

\* C36: after the cleanup function returned by bootstrapStreams has run, no
\* domain store (market, order, position, risk, alert) is modified by a later
\* stream message of the manager that bootstrap created, also when
\* bootstrapStreams is run, cleaned up and run again: every step that
\* modifies a store is a message on a socket of the manager of a run that
\* has not been cleaned up, and every socket of a cleaned-up run is closed.
C36_NoStoreWriteAfterCleanup ==
  [][/\ (<<domain, alerts, orders, risk>>' # <<domain, alerts, orders, risk>>)
          => /\ lastMsg'.outcome # "none"
             /\ Current(lastMsg'.socket, sockets')
     /\ \A w \in DOMAIN ws' :
           ~Current(w, sockets') => ws'[w].readyState = "CLOSED"]_vars

\* bootstrapStreams has been run, cleaned up and run again; the sockets of
\* the first run are closed and a message of the second run has added an
\* alert.
C36_Witness ==
  /\ Len(ws) = 6
  /\ sockets # EmptyMap
  /\ Processed
  /\ lastMsg.socket = 6
  /\ calls # << >>
  /\ alerts.alerts # << >>
  /\ domain.prices # EmptyMap

\* One entry was put in front of the list and, the list being full, its
\* oldest (last) entry has gone.
AddedInFront(before, after, cap) ==
  /\ Len(after) = (IF Len(before) < cap THEN Len(before) + 1 ELSE cap)
  /\ \A k \in 2..Len(after) : after[k] = before[k - 1]

====
